---- MODULE Spec2Model ----
(***************************************************************************)
(* Model of caret_analyze/record/record.py: Record, Records and the three  *)
(* merges (Records.merge, Records.merge_sequencial,                        *)
(* Records.merge_sequencial_for_addr_track).                               *)
(*                                                                         *)
(* Python objects are modelled by a heap: `heap` is the sequence of all    *)
(* Record objects ever created, a Record's identity is its index, and a    *)
(* Records table is [columns |-> sequence of names, data |-> sequence of   *)
(* heap indices].  Two tables that hold the same index share the row, as   *)
(* Records.concat makes them do.  A Record is the function _data; its      *)
(* _columns set is the function's DOMAIN.                                  *)
(***************************************************************************)
EXTENDS Integers, Sequences, FiniteSets, TLC

VARIABLES
    heap,            \* Seq(Record): every Record object, by identity
    prov,            \* history: for each heap index, the input rows it came from
    self_records,    \* the table a merge is called on (left / source)
    right_records,   \* the right argument of merge / merge_sequencial
    copy_records,    \* the copy argument of the address-track merge
    sink_records,    \* the sink argument of the address-track merge
    merged_records,  \* the table the last merge returned (or is filling)
    concat_records,  \* address-track merge: the sorted rows of its scan
    scanned,         \* address-track merge: how many of them the loop has done
    processing_records,  \* address-track merge: the dict addr -> sink row
    sets,            \* Seq(set of addresses): every set object, by identity
    group,           \* the dict the last groupby returned: key tuple -> table
    a_record,        \* one Record object on its own: its _data and _columns
    call,            \* the arguments of the last merge call
    pre,             \* history: heap and input tables when the merge was called
    pc               \* "build" while the caller fills the inputs, "scan"
                     \* inside the loop of the address-track merge, then "done"

vars == <<heap, prov, self_records, right_records, copy_records, sink_records,
          merged_records, concat_records, scanned, processing_records, sets,
          group, a_record, call, pre, pc>>

---------------------------------------------------------------------------
(* Bounds of the model *)

\* rows per input table of the keyed and the sequential merge
MaxRows == 2
\* cell values of those tables are 0..MaxValue
MaxValue == 1

---------------------------------------------------------------------------
(* Program constants *)

\* maxsize = 2**64 - 1 in the source: the "missing" sentinel of sort and key
\* extraction, larger than every stored value.  TLC's integers are 32 bits
\* wide, so the model takes the largest of those.
maxsize == 2147483647

\* class MergeSide(IntEnum)
LEFT == 0
RIGHT == 1

\* class RecordType(IntEnum)
SOURCE == 0
COPY == 1
SINK == 2

column_side == "_tmp_side"
column_found_right_record == "_tmp_found_right_record"
column_has_valid_join_key == "_tmp_has_valid_join_key"
\* f'_tmp_join_key_{i}' for i in range(len(join_left_keys))
JoinKeyNames == <<"_tmp_join_key_0", "_tmp_join_key_1">>
column_join_keys(n) == SubSeq(JoinKeyNames, 1, n)

column_merge_stamp == "_tmp_stamp"
column_has_merge_stamp == "_tmp_has_merge_stamp"
column_sub_records == "_tmp_sub_records"

\* Python's bool cells (True == 1, False == 0)
True == 1
False == 0

---------------------------------------------------------------------------
(* Sequences *)

Range(s) == {s[i] : i \in DOMAIN s}

\* UniqueList(...).as_list(): first occurrences, in order
RECURSIVE UniqueList(_)
UniqueList(s) ==
    IF s = <<>> THEN <<>>
    ELSE LET init == UniqueList(SubSeq(s, 1, Len(s) - 1))
             x == s[Len(s)]
         IN IF x \in Range(init) THEN init ELSE Append(init, x)

\* A < B for two integer tuples of the same length (Python tuple comparison)
RECURSIVE TupleLess(_, _)
TupleLess(s, t) ==
    IF s = <<>> THEN FALSE
    ELSE IF s[1] # t[1] THEN s[1] < t[1]
    ELSE TupleLess(Tail(s), Tail(t))

---------------------------------------------------------------------------
(* class Record *)

\* Record(): no cell, no column
EmptyRecord == [data |-> <<>>, columns |-> {}]

Record_get_with_default(r, key, v) == IF key \in DOMAIN r THEN r[key] ELSE v

Record_add(r, key, stamp) ==
    [k \in DOMAIN r \cup {key} |-> IF k = key THEN stamp ELSE r[k]]

Record_drop_columns(r, columns) == [k \in DOMAIN r \ columns |-> r[k]]

\* mutant: the receiver's own value wins on a shared name
Record_merge_KeepOwn(r, other) ==
    [k \in DOMAIN r \cup DOMAIN other |->
        IF k \in DOMAIN r THEN r[k] ELSE other[k]]

Record_merge(r, other) ==
    [k \in DOMAIN r \cup DOMAIN other |->
        IF k \in DOMAIN other THEN other[k] ELSE r[k]]

\* mutant: the cell stays under the old key as well
Record_change_dict_key_KeepOld(r, old_key, new_key) ==
    [k \in DOMAIN r \cup {new_key} |->
        IF k = new_key THEN r[old_key] ELSE r[k]]

Record_change_dict_key(r, old_key, new_key) ==
    [k \in (DOMAIN r \ {old_key}) \cup {new_key} |->
        IF k = new_key THEN r[old_key] ELSE r[k]]

---------------------------------------------------------------------------
(* class Records: operations on a heap h and a table t *)

EmptyRecords(columns) == [columns |-> columns, data |-> <<>>]

\* The function f with x mapped to v (x joins the domain if it is new):
\* an assignment to one object of the heap, or to one key of a dict
Put(f, x, v) == [y \in DOMAIN f \cup {x} |-> IF y = x THEN v ELSE f[y]]

\* Records._drop_columns
Records_drop_columns(h, t, columns) ==
    [id \in DOMAIN h |->
        IF id \in Range(t.data) THEN Record_drop_columns(h[id], columns)
        ELSE h[id]]

\* Columns.drop(names): the columns of that name leave the collection and
\* each of them reports on_column_dropped to the owning Records; a name the
\* collection does not hold changes nothing.
Columns_drop(h, t, names) ==
    LET held == names \cap Range(t.columns)
    IN [heap |-> Records_drop_columns(h, t, held),
        rec  |-> [t EXCEPT !.columns = SelectSeq(@, LAMBDA c: c \notin names)]]

\* Records.append_column(column, values) with len(values) == len(self):
\* every value of the merges' calls is the same tag
Records_append_column(h, t, column, value) ==
    [heap |-> [id \in DOMAIN h |->
                 IF id \in Range(t.data) THEN Record_add(h[id], column, value)
                 ELSE h[id]],
     rec  |-> [t EXCEPT !.columns = Append(@, column)]]

\* Records.clone(): deepcopy, the copies are new objects at the end of the heap
CloneIds(h, t) == [i \in DOMAIN t.data |-> Len(h) + i]
CloneHeap(h, t) == h \o [i \in DOMAIN t.data |-> h[t.data[i]]]

\* mutant: a missing key counts as 0
key_func_MissingFirst(r, keys, sign) ==
    [i \in DOMAIN keys |-> sign * Record_get_with_default(r, keys[i], 0)]

\* key_func of Records.sort; sign is 1 (ascending) or -1 (descending)
key_func(r, keys, sign) ==
    [i \in DOMAIN keys |-> sign * Record_get_with_default(r, keys[i], maxsize)]

\* list.sort(key=key_func) is stable: x goes behind every element whose key
\* is not larger than its own
InsertStable(h, sorted, x, keys, sign) ==
    LET kx == key_func(h[x], keys, sign)
        p == Cardinality({i \in DOMAIN sorted :
                 ~TupleLess(kx, key_func(h[sorted[i]], keys, sign))})
    IN SubSeq(sorted, 1, p) \o <<x>> \o SubSeq(sorted, p + 1, Len(sorted))

RECURSIVE SortData(_, _, _, _)
SortData(h, data, keys, sign) ==
    IF data = <<>> THEN <<>>
    ELSE InsertStable(h, SortData(h, SubSeq(data, 1, Len(data) - 1), keys, sign),
                      data[Len(data)], keys, sign)

\* mutant: a descending sort reverses the ascending order, ties included
Records_sort_Reversing(h, data, keys, ascending) ==
    LET up == SortData(h, data, keys, 1)
    IN IF ascending THEN up ELSE [p \in DOMAIN up |-> up[Len(up) + 1 - p]]

\* Records.sort(key, ascending): the new order of the table's rows
Records_sort(h, data, keys, ascending) ==
    SortData(h, data, keys, IF ascending THEN 1 ELSE -1)

\* mutant: other's rows are put in front of the rows of self
Records_concat_InFront(t, other) == [t EXCEPT !.data = other.data \o @]

\* Records.concat(other) after its column check: other's rows are appended,
\* the same objects, not copies
Records_concat(t, other) == [t EXCEPT !.data = @ \o other.data]

\* lines 315-316 of Records.append_column: the i-th value is added to the
\* row object at place i, place after place
RECURSIVE AppendColumnLoop(_, _, _, _, _)
AppendColumnLoop(h, data, column, values, i) ==
    IF i > Len(data) THEN h
    ELSE AppendColumnLoop(Put(h, data[i], Record_add(h[data[i]], column, values[i])),
                          data, column, values, i + 1)

\* Records.append_column(column, values) once the lengths agree
Records_append_column_values(h, t, column, values) ==
    [heap |-> AppendColumnLoop(h, t.data, column, values, 1),
     rec  |-> [t EXCEPT !.columns = Append(@, column)]]

---------------------------------------------------------------------------
(* class Record as an object of two fields: _data, the dict of its cells,  *)
(* and _columns, the set of names kept beside it                           *)

\* Record(init)
Rec_init(init) == [data |-> init, columns |-> DOMAIN init]

\* Record.add
Rec_add(r, key, stamp) ==
    [data |-> Put(r.data, key, stamp), columns |-> r.columns \cup {key}]

\* lines 68-71 of Record.drop_columns: the loop over the list; del raises
\* KeyError for a name that _columns holds and _data does not
RECURSIVE DropLoop(_, _, _, _)
DropLoop(data, own, columns, i) ==
    IF i > Len(columns) THEN [data |-> data, raised |-> FALSE]
    ELSE IF columns[i] \notin own THEN DropLoop(data, own, columns, i + 1)
    ELSE IF columns[i] \notin DOMAIN data THEN [data |-> data, raised |-> TRUE]
    ELSE DropLoop([k \in DOMAIN data \ {columns[i]} |-> data[k]], own, columns, i + 1)

\* Record.drop_columns(columns), columns a list; line 73 is reached only
\* when the loop did not raise
Rec_drop_columns(r, columns) ==
    LET out == DropLoop(r.data, r.columns, columns, 1)
    IN [data |-> out.data,
        columns |-> IF out.raised THEN r.columns ELSE r.columns \ Range(columns),
        raised |-> out.raised]

\* Record.merge
Rec_merge(r, other) ==
    [data |-> Record_merge(r.data, other.data),
     columns |-> r.columns \cup other.columns]

\* Record.change_dict_key, old_key a key of _data
Rec_change_dict_key(r, old_key, new_key) ==
    [data |-> Record_change_dict_key(r.data, old_key, new_key),
     columns |-> (r.columns \ {old_key}) \cup {new_key}]

---------------------------------------------------------------------------
(* Records.groupby.  The returned dict is the sequence of its entries      *)
(* [key, records] in insertion order.                                      *)

\* mutant: a row of a key already in the dict starts the group anew
GroupStep_Restart(g, t, k, id) ==
    IF \E n \in DOMAIN g : g[n].key = k
    THEN [n \in DOMAIN g |->
            IF g[n].key = k
            THEN [key |-> k, records |-> [columns |-> t.columns, data |-> <<id>>]]
            ELSE g[n]]
    ELSE Append(g, [key |-> k,
                    records |-> [columns |-> t.columns, data |-> <<id>>]])

\* lines 909-911: the row id, of key tuple k, goes into its group, which is
\* created with the table's columns when the key is new
GroupStep(g, t, k, id) ==
    IF \E n \in DOMAIN g : g[n].key = k
    THEN [n \in DOMAIN g |->
            IF g[n].key = k
            THEN [g[n] EXCEPT !.records = [@ EXCEPT !.data = Append(@, id)]]
            ELSE g[n]]
    ELSE Append(g, [key |-> k,
                    records |-> [columns |-> t.columns, data |-> <<id>>]])

\* Records.groupby(columns): the loop of lines 907-911 from row i on
RECURSIVE Records_groupby(_, _, _, _, _)
Records_groupby(g, h, t, columns, i) ==
    IF i > Len(t.data) THEN g
    ELSE LET k == [n \in DOMAIN columns |->
                     Record_get_with_default(h[t.data[i]], columns[n], maxsize)]
         IN Records_groupby(GroupStep(g, t, k, t.data[i]), h, t, columns, i + 1)

---------------------------------------------------------------------------
(* Records.bind_drop_as_delay *)

\* mutant: a value is handed on only by a row that had it before the call
DelayStep_NoCarry(acc, id, column_names) ==
    LET r == acc.heap[id]
        oldest_values == acc.oldest_values
        filled == [key \in DOMAIN r \cup (Range(column_names) \cap DOMAIN oldest_values) |->
                     IF key \in DOMAIN r THEN r[key] ELSE oldest_values[key]]
    IN [heap |-> Put(acc.heap, id, filled),
        oldest_values |->
            [key \in DOMAIN r \cap Range(column_names) |-> r[key]]]

\* lines 421-426: the row id takes, for every column it lacks, the value of
\* the row last seen with that column, and hands its own values on
DelayStep(acc, id, column_names) ==
    LET r == acc.heap[id]
        oldest_values == acc.oldest_values
        filled == [key \in DOMAIN r \cup (Range(column_names) \cap DOMAIN oldest_values) |->
                     IF key \in DOMAIN r THEN r[key] ELSE oldest_values[key]]
    IN [heap |-> Put(acc.heap, id, filled),
        oldest_values |->
            [key \in DOMAIN oldest_values \cup (DOMAIN filled \cap Range(column_names)) |->
                IF key \in DOMAIN filled THEN filled[key] ELSE oldest_values[key]]]

RECURSIVE DelayLoop(_, _, _, _)
DelayLoop(acc, data, i, column_names) ==
    IF i > Len(data) THEN acc
    ELSE DelayLoop(DelayStep(acc, data[i], column_names), data, i + 1, column_names)

\* Records.bind_drop_as_delay(): yields the heap and the order of the rows
\* after the call
Records_bind_drop_as_delay(h, t) ==
    LET descending == Records_sort(h, t.data, t.columns, FALSE)
        acc == DelayLoop([heap |-> h, oldest_values |-> <<>>],
                         descending, 1, t.columns)
    IN [heap |-> acc.heap,
        data |-> Records_sort(acc.heap, descending, t.columns, TRUE)]

---------------------------------------------------------------------------
(* Records.merge: the keyed merge *)

\* mutant: every row counts as carrying its join keys
TagJoinKeys_AlwaysValid(r, join_left_keys, join_right_keys) ==
    LET join_keys_ == IF r[column_side] = LEFT THEN join_left_keys
                      ELSE join_right_keys
        names == column_join_keys(Len(join_left_keys))
        tagged == Record_add(r, column_has_valid_join_key, True)
    IN [k \in DOMAIN tagged \cup Range(names) |->
          IF \E i \in DOMAIN names : names[i] = k
          THEN LET i == CHOOSE i \in DOMAIN names : names[i] = k
               IN Record_get_with_default(r, join_keys_[i], maxsize)
          ELSE tagged[k]]

\* lines 499-508: every row of concat_records gets its validity flag and
\* its normalised join keys
TagJoinKeys(r, join_left_keys, join_right_keys) ==
    LET join_keys_ == IF r[column_side] = LEFT THEN join_left_keys
                      ELSE join_right_keys
        has_valid_join_key == IF Range(join_keys_) \subseteq DOMAIN r
                              THEN True ELSE False
        names == column_join_keys(Len(join_left_keys))
        tagged == Record_add(r, column_has_valid_join_key, has_valid_join_key)
    IN [k \in DOMAIN tagged \cup Range(names) |->
          IF \E i \in DOMAIN names : names[i] = k
          THEN LET i == CHOOSE i \in DOMAIN names : names[i] = k
               IN Record_get_with_default(r, join_keys_[i], maxsize)
          ELSE tagged[k]]

\* move_left_to_empty: the bucket's left rows that found no right row
move_left_to_empty(h, left, empty) ==
    empty \o SelectSeq(left, LAMBDA id: h[id][column_found_right_record] = False)

\* lines 554-558: the right row `rec` meets every left row of the bucket
MergePairs(acc, rec) ==
    LET h == acc.heap
        b == acc.left_records_
        h1 == [id \in DOMAIN h |->
                 IF id \in Range(b)
                 THEN Record_add(h[id], column_found_right_record, True)
                 ELSE h[id]]
        \* merged_record = deepcopy(record); merged_record.merge(left_record)
        made == [k \in DOMAIN b |-> Record_merge(h1[rec], h1[b[k]])]
    IN [acc EXCEPT
          !.heap = h1 \o made,
          !.prov = @ \o [k \in DOMAIN b |->
                           [l |-> acc.prov[b[k]].l, r |-> acc.prov[rec].r]],
          !.merged = @ \o [k \in DOMAIN b |-> Len(h) + k],
          \* lines 560-561
          !.empty_records = IF Len(b) = 0 THEN Append(@, rec) ELSE @]

\* One iteration of the loop of lines 532-561
MergeStep(acc, rec, nkeys) ==
    LET r == acc.heap[rec]
    IN IF r[column_has_valid_join_key] = False
       THEN [acc EXCEPT !.empty_records = Append(@, rec)]
       ELSE
         LET names == column_join_keys(nkeys)
             join_value == [i \in DOMAIN names |-> r[names[i]]]
             a1 == IF join_value \notin acc.processed_stamps
                   THEN [acc EXCEPT
                           !.empty_records =
                               move_left_to_empty(acc.heap, acc.left_records_, @),
                           !.left_records_ = <<>>,
                           !.processed_stamps = @ \cup {join_value}]
                   ELSE acc
         IN IF r[column_side] = LEFT
            THEN [a1 EXCEPT
                    !.heap = Put(@, rec, Record_add(r, column_found_right_record, False)),
                    !.left_records_ = Append(@, rec)]
            ELSE MergePairs(a1, rec)

RECURSIVE MergeLoop(_, _, _, _)
MergeLoop(acc, data, i, nkeys) ==
    IF i > Len(data) THEN acc
    ELSE MergeLoop(MergeStep(acc, data[i], nkeys), data, i + 1, nkeys)

\* mutant: merge_left = how in ['left'], an outer merge loses its left rows
KeepEmpty_LeftOnly(r, how) ==
    \/ r[column_side] = LEFT /\ how \in {"left"}
    \/ r[column_side] = RIGHT /\ how \in {"right", "outer"}

\* lines 565-570: which rows of empty_records the result takes
KeepEmpty(r, how) ==
    \/ r[column_side] = LEFT /\ how \in {"left", "outer"}
    \/ r[column_side] = RIGHT /\ how \in {"right", "outer"}

\* mutant: the kept rows of empty_records go in front of the paired rows
AppendEmpty_InFront(h, merged, empty_records, how) ==
    SelectSeq(empty_records, LAMBDA id: KeepEmpty(h[id], how)) \o merged

\* lines 565-570: merged_records.append(record) for the rows kept, behind the
\* paired rows the sweep appended
AppendEmpty(h, merged, empty_records, how) ==
    merged \o SelectSeq(empty_records, LAMBDA id: KeepEmpty(h[id], how))

\* Records.merge(right_records, join_left_key, join_right_key, how), for
\* arguments that pass the checks of lines 450-468.  Yields the heap, the
\* right table and the returned table after the call.
Records_merge(h, pv, self, right, join_left_keys, join_right_keys, how) ==
    LET columns == UniqueList(self.columns \o right.columns)
        nkeys == Len(join_left_keys)
        \* left_records = self.clone()
        left0 == [columns |-> self.columns, data |-> CloneIds(h, self)]
        h0 == CloneHeap(h, self)
        pv0 == pv \o [i \in DOMAIN self.data |-> pv[self.data[i]]]
        \* lines 476-479
        l1 == Records_append_column(h0, left0, column_side, LEFT)
        r1 == Records_append_column(l1.heap, right, column_side, RIGHT)
        left_records == l1.rec
        right1 == r1.rec
        tmp_columns == <<column_side>> \o column_join_keys(nkeys)
        concat_columns ==
            UniqueList(left_records.columns \o right1.columns \o tmp_columns)
        concat0 == Records_concat(Records_concat(EmptyRecords(concat_columns),
                                                 left_records), right1)
        h2 == [id \in DOMAIN r1.heap |->
                 IF id \in Range(concat0.data)
                 THEN TagJoinKeys(r1.heap[id], join_left_keys, join_right_keys)
                 ELSE r1.heap[id]]
        \* line 510
        sorted == Records_sort(h2, concat0.data,
                               column_join_keys(nkeys) \o <<column_side>>, TRUE)
        merged_columns ==
            UniqueList(concat_columns \o
                       <<column_found_right_record, column_has_valid_join_key>>)
        acc0 == [heap |-> h2, prov |-> pv0, merged |-> <<>>,
                 empty_records |-> <<>>, left_records_ |-> <<>>,
                 processed_stamps |-> {}]
        acc == MergeLoop(acc0, sorted, 1, nkeys)
        \* line 563
        empty_records ==
            move_left_to_empty(acc.heap, acc.left_records_, acc.empty_records)
        merged0 == [columns |-> merged_columns,
                    data |-> AppendEmpty(acc.heap, acc.merged, empty_records, how)]
        temporay_columns ==
            {column_side, column_found_right_record, column_has_valid_join_key}
            \cup Range(column_join_keys(nkeys))
        \* lines 575-577
        h3 == Records_drop_columns(acc.heap, merged0, temporay_columns)
        dl == Columns_drop(h3, left_records, temporay_columns)
        dr == Columns_drop(dl.heap, right1, temporay_columns)
        \* lines 579-581
        dm == Columns_drop(dr.heap, merged0,
                           Range(merged0.columns) \ Range(columns))
    IN [heap |-> dm.heap,
        prov |-> acc.prov,
        right |-> dr.rec,
        merged |-> [columns |-> columns, data |-> dm.rec.data]]

---------------------------------------------------------------------------
(* Records.merge_sequencial: the sequential merge *)

\* lines 652-665: every row of concat_records gets its validity flag, its
\* stamp flag and its merge stamp
TagStamp(r, left_stamp_key, right_stamp_key, join_left_keys, join_right_keys) ==
    LET join_keys == IF r[column_side] = LEFT THEN join_left_keys
                     ELSE join_right_keys
        stamp_key == IF r[column_side] = LEFT THEN left_stamp_key
                     ELSE right_stamp_key
        r1 == Record_add(r, column_has_valid_join_key,
                         IF Len(join_keys) = 0 \/ Range(join_keys) \subseteq DOMAIN r
                         THEN True ELSE False)
        r2 == Record_add(r1, column_has_merge_stamp,
                         IF stamp_key \in DOMAIN r THEN True ELSE False)
    IN Record_add(r2, column_merge_stamp,
                  Record_get_with_default(r, stamp_key, maxsize))

\* get_join_values, lines 667-679
get_join_values(r, join_left_keys, join_right_keys) ==
    IF r[column_side] = LEFT
    THEN [i \in DOMAIN join_left_keys |->
            Record_get_with_default(r, join_left_keys[i], maxsize)]
    ELSE [i \in DOMAIN join_right_keys |->
            Record_get_with_default(r, join_right_keys[i], maxsize)]

\* mutant: a later left row of the same join value does not replace the
\* left row the right rows are bound to
BindStep_KeepFirst(acc, rec, join_left_keys, join_right_keys) ==
    LET r == acc.heap[rec]
        join_value == get_join_values(r, join_left_keys, join_right_keys)
    IN IF r[column_has_merge_stamp] = False THEN acc
       ELSE IF r[column_side] = LEFT
       THEN [acc EXCEPT
               !.heap = Put(@, rec, Record_add(r, column_sub_records, 0)),
               !.sub_records = Put(@, rec, <<>>),
               !.to_left_records =
                   IF join_value \in DOMAIN @ THEN @ ELSE Put(@, join_value, rec)]
       ELSE IF join_value \notin DOMAIN acc.to_left_records THEN acc
       ELSE LET left_record_to_be_bind == acc.to_left_records[join_value]
            IN [acc EXCEPT
                  !.sub_records = Put(@, left_record_to_be_bind,
                                      Append(@[left_record_to_be_bind], rec))]

\* One iteration of the first loop, lines 684-700.  The list a left row
\* holds in its _tmp_sub_records cell is kept in acc.sub_records (by the
\* row's identity); the cell itself holds 0.
BindStep(acc, rec, join_left_keys, join_right_keys) ==
    LET r == acc.heap[rec]
        join_value == get_join_values(r, join_left_keys, join_right_keys)
    IN IF r[column_has_merge_stamp] = False THEN acc
       ELSE IF r[column_side] = LEFT
       THEN [acc EXCEPT
               !.heap = Put(@, rec, Record_add(r, column_sub_records, 0)),
               !.sub_records = Put(@, rec, <<>>),
               !.to_left_records = Put(@, join_value, rec)]
       ELSE IF join_value \notin DOMAIN acc.to_left_records THEN acc
       ELSE LET left_record_to_be_bind == acc.to_left_records[join_value]
            IN [acc EXCEPT
                  !.sub_records = Put(@, left_record_to_be_bind,
                                      Append(@[left_record_to_be_bind], rec))]

RECURSIVE BindLoop(_, _, _, _, _)
BindLoop(acc, data, i, join_left_keys, join_right_keys) ==
    IF i > Len(data) THEN acc
    ELSE BindLoop(BindStep(acc, data[i], join_left_keys, join_right_keys),
                  data, i + 1, join_left_keys, join_right_keys)

merge_left(how) == how \in {"left", "outer", "left_use_latest"}
\* mutant: every how goes on to the later sub-records
bind_latest_left_record_Always(how) == how = how
\* mutant: no how goes on to the later sub-records
bind_latest_left_record_Never(how) == how # how
bind_latest_left_record(how) == how \in {"left_use_latest"}
\* mutant: how=left returns the unpaired right rows as well
merge_right_WithLeft(how) == how \in {"right", "outer", "left"}
merge_right(how) == how \in {"right", "outer"}

\* merged_records.append(current_record); added.add(current_record)
EmitAlone(acc, rec) ==
    [acc EXCEPT !.merged = Append(@, rec), !.added = @ \cup {rec}]

\* lines 742-756: the loop over the sub-records of the left row `rec`
RECURSIVE EmitPairs(_, _, _, _, _)
EmitPairs(acc, rec, sub_records, i, how) ==
    IF i > Len(sub_records) THEN acc
    ELSE IF 1 <= i - 1 /\ ~bind_latest_left_record(how) THEN acc
    ELSE IF sub_records[i] \in acc.added
    THEN EmitPairs(IF merge_left(how) THEN EmitAlone(acc, rec) ELSE acc,
                   rec, sub_records, i + 1, how)
    ELSE LET sub_record == sub_records[i]
             \* merged_record = Record(); .merge(current_record); .merge(sub_record)
             merged_record ==
                 Record_merge(Record_merge(<<>>, acc.heap[rec]), acc.heap[sub_record])
         IN EmitPairs(
              [acc EXCEPT
                 !.heap = Append(@, merged_record),
                 !.prov = Append(@, [l |-> acc.prov[rec].l,
                                     r |-> acc.prov[sub_record].r]),
                 !.merged = Append(@, Len(acc.heap) + 1),
                 !.added = @ \cup {rec, sub_record}],
              rec, sub_records, i + 1, how)

\* One iteration of the second loop, lines 711-756
EmitStep(acc, rec, sub, how) ==
    LET r == acc.heap[rec]
    IN IF rec \in acc.added THEN acc
       ELSE IF r[column_has_merge_stamp] = False
               \/ r[column_has_valid_join_key] = False
       THEN IF r[column_side] = RIGHT /\ merge_right(how) THEN EmitAlone(acc, rec)
            ELSE IF r[column_side] = LEFT /\ merge_left(how) THEN EmitAlone(acc, rec)
            ELSE acc
       ELSE IF r[column_side] = RIGHT
       THEN IF merge_right(how) THEN EmitAlone(acc, rec) ELSE acc
       ELSE IF sub[rec] = <<>>
       THEN IF merge_left(how) THEN EmitAlone(acc, rec) ELSE acc
       ELSE EmitPairs(acc, rec, sub[rec], 1, how)

RECURSIVE EmitLoop(_, _, _, _, _)
EmitLoop(acc, data, i, sub, how) ==
    IF i > Len(data) THEN acc
    ELSE EmitLoop(EmitStep(acc, data[i], sub, how), data, i + 1, sub, how)

\* Records.merge_sequencial(right_records, left_stamp_key, right_stamp_key,
\* join_left_key, join_right_key, how), for arguments that pass the checks of
\* lines 606-623.  Yields the heap, both input tables and the returned table
\* after the call.
Records_merge_sequencial(h, pv, self, right, left_stamp_key, right_stamp_key, join_left_keys, join_right_keys, how) ==
    LET columns == UniqueList(self.columns \o right.columns)
        \* left_records = self: no clone
        l1 == Records_append_column(h, self, column_side, LEFT)
        r1 == Records_append_column(l1.heap, right, column_side, RIGHT)
        left_records == l1.rec
        right1 == r1.rec
        concat_columns ==
            UniqueList(left_records.columns \o right1.columns \o
                       <<column_has_valid_join_key, column_merge_stamp,
                         column_has_merge_stamp>>)
        concat0 == Records_concat(Records_concat(EmptyRecords(concat_columns),
                                                 left_records), right1)
        h2 == [id \in DOMAIN r1.heap |->
                 IF id \in Range(concat0.data)
                 THEN TagStamp(r1.heap[id], left_stamp_key, right_stamp_key,
                               join_left_keys, join_right_keys)
                 ELSE r1.heap[id]]
        \* line 681
        sorted == Records_sort(h2, concat0.data,
                               <<column_merge_stamp, column_side>>, TRUE)
        bound == BindLoop([heap |-> h2, to_left_records |-> <<>>,
                           sub_records |-> <<>>],
                          sorted, 1, join_left_keys, join_right_keys)
        merged_columns == UniqueList(concat_columns \o <<column_sub_records>>)
        acc == EmitLoop([heap |-> bound.heap, prov |-> pv, merged |-> <<>>,
                         added |-> {}],
                        sorted, 1, bound.sub_records, how)
        merged0 == [columns |-> merged_columns, data |-> acc.merged]
        temporay_columns ==
            {column_side, column_merge_stamp, column_has_merge_stamp,
             column_has_valid_join_key, column_sub_records}
        \* lines 765-767
        dm == Columns_drop(acc.heap, merged0, temporay_columns)
        dl == Columns_drop(dm.heap, left_records, temporay_columns)
        dr == Columns_drop(dl.heap, right1, temporay_columns)
    IN [heap |-> dr.heap,
        prov |-> acc.prov,
        self |-> dl.rec,
        right |-> dr.rec,
        \* line 769: reindex to `columns`
        merged |-> [columns |-> columns, data |-> dm.rec.data]]

---------------------------------------------------------------------------
(* Records.merge_sequencial_for_addr_track: the address-track merge.  Its  *)
(* key arguments are taken from the record c (source_stamp_key, source_key,*)
(* copy_stamp_key, copy_from_key, copy_to_key, sink_stamp_key,             *)
(* sink_from_key).                                                         *)

column_type == "_tmp_type"
column_timestamp == "_tmp_timestamp"
\* sink_from_keys = sink_from_key + '_', for the sink_from_key of the calls
sink_from_keys == "sink_from_"

\* lines 820-821, 823-824: append_column(column_timestamp, [r.get(stamp_key)
\* for r in data])
AppendTimestamps(h, t, stamp_key) ==
    [heap |-> [id \in DOMAIN h |->
                 IF id \in Range(t.data)
                 THEN Record_add(h[id], column_timestamp, h[id][stamp_key])
                 ELSE h[id]],
     rec  |-> [t EXCEPT !.columns = Append(@, column_timestamp)]]

\* Columns.rename({old: new}): the column keeps its place under the new
\* name and reports on_column_renamed to the owning Records, whose
\* _rename_columns changes the key in every row that has it
Columns_rename(h, t, old, new) ==
    [heap |-> [id \in DOMAIN h |->
                 IF id \in Range(t.data) /\ old \in DOMAIN h[id]
                 THEN Record_change_dict_key(h[id], old, new)
                 ELSE h[id]],
     rec  |-> [t EXCEPT !.columns =
                  [i \in DOMAIN @ |-> IF @[i] = old THEN new ELSE @[i]]]]

\* lines 800-806: the columns of the returned table
ResultColumns(self, copy, sink, c) ==
    SelectSeq(self.columns \o copy.columns \o sink.columns,
              LAMBDA x: x \notin {c.copy_stamp_key, c.copy_from_key,
                                  c.copy_to_key, c.sink_from_key})

\* mutant: the scan runs forward in time
SortConcat_Ascending(h, data) == Records_sort(h, data, <<column_timestamp>>, TRUE)

\* line 835: concat_records.sort(column_timestamp, ascending=False)
SortConcat(h, data) == Records_sort(h, data, <<column_timestamp>>, FALSE)

\* lines 811-835: the three inputs are cloned, tagged with type and
\* timestamp, concatenated and sorted.  Yields the heap, the columns of
\* merged_records and the rows of concat_records.
AddrTrackSetup(h, pv, self, copy, sink, c) ==
    LET source0 == [columns |-> self.columns, data |-> CloneIds(h, self)]
        h0 == CloneHeap(h, self)
        copy0 == [columns |-> copy.columns, data |-> CloneIds(h0, copy)]
        h1 == CloneHeap(h0, copy)
        sink0 == [columns |-> sink.columns, data |-> CloneIds(h1, sink)]
        h2 == CloneHeap(h1, sink)
        pv2 == pv \o [i \in DOMAIN self.data |-> pv[self.data[i]]]
                  \o [i \in DOMAIN copy.data |-> pv[copy.data[i]]]
                  \o [i \in DOMAIN sink.data |-> pv[sink.data[i]]]
        s1 == Records_append_column(h2, source0, column_type, SOURCE)
        c1 == Records_append_column(s1.heap, copy0, column_type, COPY)
        k1 == Records_append_column(c1.heap, sink0, column_type, SINK)
        s2 == AppendTimestamps(k1.heap, s1.rec, c.source_stamp_key)
        c2 == Columns_rename(s2.heap, c1.rec, c.copy_stamp_key, column_timestamp)
        k2 == AppendTimestamps(c2.heap, k1.rec, c.sink_stamp_key)
        merged_records_column ==
            UniqueList(s2.rec.columns \o c2.rec.columns \o k2.rec.columns)
    IN [heap |-> k2.heap,
        prov |-> pv2,
        columns |-> merged_records_column,
        concat |-> SortConcat(k2.heap, s2.rec.data \o c2.rec.data \o k2.rec.data)]

\* processing_records is a dict: its entries [addr, record] in insertion
\* order.
\* mutant: a second row of the same address is kept beside the first
DictSet_KeepBoth(d, addr, record) ==
    Append(d, [addr |-> addr, record |-> record])

\* d[addr] = record
DictSet(d, addr, record) ==
    IF \E i \in DOMAIN d : d[i].addr = addr
    THEN [i \in DOMAIN d |->
            IF d[i].addr = addr THEN [addr |-> addr, record |-> record] ELSE d[i]]
    ELSE Append(d, [addr |-> addr, record |-> record])

\* the address set a processing row holds in its sink_from_keys cell
KeysOf(h, ss, record) == ss[h[record][sink_from_keys]]

\* merge_processing_record_keys, lines 844-857: the filter passes every row
\* of the dict whose set meets the set of processing_record (the second
\* condition compares a set with an int and is always true), the row
\* itself included; both rows are given the same new set object.
RECURSIVE merge_processing_record_keys(_, _, _, _)
merge_processing_record_keys(acc, d, i, processing_record) ==
    IF i > Len(d) THEN acc
    ELSE LET processing_record_ == d[i].record
             processing_record_keys == KeysOf(acc.heap, acc.sets, processing_record)
             coresponding_record_keys == KeysOf(acc.heap, acc.sets, processing_record_)
             merged_set == Len(acc.sets) + 1
             h1 == Put(acc.heap, processing_record,
                       Put(acc.heap[processing_record], sink_from_keys, merged_set))
             h2 == Put(h1, processing_record_,
                       Put(h1[processing_record_], sink_from_keys, merged_set))
         IN merge_processing_record_keys(
              IF coresponding_record_keys \cap processing_record_keys # {}
              THEN [heap |-> h2,
                    sets |-> Append(acc.sets, processing_record_keys
                                              \cup coresponding_record_keys)]
              ELSE acc,
              d, i + 1, processing_record)

\* lines 861-864: a SINK row enters the dict under its sink_from address
\* with a new address set
ScanSinkRow(h, ss, d, record, c) ==
    LET addr == h[record][c.sink_from_key]
    IN [heap |-> Put(h, record, Put(h[record], sink_from_keys, Len(ss) + 1)),
        sets |-> Append(ss, {addr}),
        processing |-> DictSet(d, addr, record)]

\* lines 866-876: a COPY row extends the set of the first row of the dict
\* that holds copy_to, then the sets are merged
ScanCopyRow(h, ss, d, record, c) ==
    LET hits == {i \in DOMAIN d : h[record][c.copy_to_key] \in KeysOf(h, ss, d[i].record)}
    IN IF hits = {} THEN [heap |-> h, sets |-> ss, processing |-> d]
       ELSE LET first == CHOOSE i \in hits : \A i2 \in hits : i <= i2
                processing_record == d[first].record
                keys == h[processing_record][sink_from_keys]
                \* set.add: the set object itself changes
                ss1 == Put(ss, keys, ss[keys] \cup {h[record][c.copy_from_key]})
                acc == merge_processing_record_keys([heap |-> h, sets |-> ss1],
                                                    d, 1, processing_record)
            IN [heap |-> acc.heap, sets |-> acc.sets, processing |-> d]

\* mutant: the rows that were returned stay in the dict
ScanSourceRow_KeepProcessing(h, pv, ss, d, merged, record, c) ==
    LET found == SelectSeq(d, LAMBDA e:
                     h[record][c.source_key] \in KeysOf(h, ss, e.record))
        rows == {found[i].record : i \in DOMAIN found}
    IN [heap |-> [id \in DOMAIN h |->
                    IF id \in rows THEN Record_merge(h[id], h[record]) ELSE h[id]],
        prov |-> [id \in DOMAIN pv |->
                    IF id \in rows THEN [l |-> pv[record].l, r |-> pv[id].r]
                    ELSE pv[id]],
        merged |-> [merged EXCEPT
                      !.data = @ \o [i \in DOMAIN found |-> found[i].record]],
        processing |-> d]

\* lines 878-890: a SOURCE row is merged into every row of the dict whose
\* set holds source_key; those rows go to merged_records and leave the dict
ScanSourceRow(h, pv, ss, d, merged, record, c) ==
    LET found == SelectSeq(d, LAMBDA e:
                     h[record][c.source_key] \in KeysOf(h, ss, e.record))
        rows == {found[i].record : i \in DOMAIN found}
        merged_addrs == {h[found[i].record][c.sink_from_key] : i \in DOMAIN found}
    IN [heap |-> [id \in DOMAIN h |->
                    IF id \in rows THEN Record_merge(h[id], h[record]) ELSE h[id]],
        prov |-> [id \in DOMAIN pv |->
                    IF id \in rows THEN [l |-> pv[record].l, r |-> pv[id].r]
                    ELSE pv[id]],
        merged |-> [merged EXCEPT
                      !.data = @ \o [i \in DOMAIN found |-> found[i].record]],
        processing |-> SelectSeq(d, LAMBDA e: e.addr \notin merged_addrs)]

\* lines 892-901: the added keys leave the returned table
AddrTrackFinish(h, merged, columns, c) ==
    LET d1 == Columns_drop(h, merged,
                           {column_type, column_timestamp, c.sink_from_key,
                            sink_from_keys, c.copy_from_key, c.copy_to_key,
                            c.copy_stamp_key})
        d2 == Columns_drop(d1.heap, d1.rec,
                           Range(d1.rec.columns) \ Range(columns))
    IN [heap |-> [id \in DOMAIN d2.heap |->
                    IF id \in Range(merged.data)
                    \* record.data.pop(sink_from_keys)
                    THEN [k \in DOMAIN d2.heap[id] \ {sink_from_keys} |-> d2.heap[id][k]]
                    ELSE d2.heap[id]],
        \* reindex(columns)
        merged |-> [columns |-> columns, data |-> merged.data]]

---------------------------------------------------------------------------
(* The callers: tables are filled row by row, then one merge is called *)

\* Every column of a row is absent or holds a value
RowsOver(columns, values) == UNION {[D -> values] : D \in SUBSET columns}

Values == 0 .. MaxValue
SelfColumns == <<"a", "b">>
RightColumns == <<"a", "c">>

\* join_left_key / join_right_key of the calls
JoinKeys == {<<<<"b">>, <<"c">>>>, <<<<"a", "b">>, <<"a", "c">>>>}

NoCall == [op |-> "none"]
NoPre == [heap |-> <<>>]

InitTables ==
    /\ heap = <<>>
    /\ prov = <<>>
    /\ self_records = EmptyRecords(SelfColumns)
    /\ right_records = EmptyRecords(RightColumns)
    /\ copy_records = EmptyRecords(<<>>)
    /\ sink_records = EmptyRecords(<<>>)
    /\ merged_records = EmptyRecords(<<>>)
    /\ concat_records = <<>>
    /\ scanned = 0
    /\ processing_records = <<>>
    /\ sets = <<>>
    /\ group = <<>>
    /\ a_record = EmptyRecord
    /\ call = NoCall
    /\ pre = NoPre
    /\ pc = "build"

\* Records.append(record) on self, with a record of known columns
AppendSelf ==
    /\ pc = "build"
    /\ Len(self_records.data) < MaxRows
    /\ Len(right_records.data) = 0
    /\ \E row \in RowsOver(Range(self_records.columns), Values) :
         /\ heap' = Append(heap, row)
         /\ prov' = Append(prov, [l |-> Len(self_records.data) + 1, r |-> 0])
         /\ self_records' = [self_records EXCEPT !.data = Append(@, Len(heap) + 1)]
    /\ UNCHANGED <<right_records, copy_records, sink_records, merged_records,
                   concat_records, scanned, processing_records, sets,
                   group, a_record, call, pre, pc>>

\* Records.append(record) on right_records
AppendRight ==
    /\ pc = "build"
    /\ Len(right_records.data) < MaxRows
    /\ \E row \in RowsOver(Range(right_records.columns), Values) :
         /\ heap' = Append(heap, row)
         /\ prov' = Append(prov, [l |-> 0, r |-> Len(right_records.data) + 1])
         /\ right_records' = [right_records EXCEPT !.data = Append(@, Len(heap) + 1)]
    /\ UNCHANGED <<self_records, copy_records, sink_records, merged_records,
                   concat_records, scanned, processing_records, sets,
                   group, a_record, call, pre, pc>>

Snapshot == [heap |-> heap, self |-> self_records, right |-> right_records]

\* merged = self_records.merge(right_records, join_left_key, join_right_key, how)
Merge ==
    /\ pc = "build"
    /\ \E how \in {"inner", "left", "right", "outer"}, jk \in JoinKeys :
         LET out == Records_merge(heap, prov, self_records, right_records,
                                  jk[1], jk[2], how)
         IN /\ heap' = out.heap
            /\ prov' = out.prov
            /\ right_records' = out.right
            /\ merged_records' = out.merged
            /\ call' = [op |-> "merge", how |-> how,
                        join_left_keys |-> jk[1], join_right_keys |-> jk[2]]
    /\ pre' = Snapshot
    /\ pc' = "done"
    /\ UNCHANGED <<self_records, copy_records, sink_records,
                   concat_records, scanned, processing_records, sets,
                   group, a_record>>

NextMerge == AppendSelf \/ AppendRight \/ Merge

\* join keys of the sequential calls: one key, or none (pairing by time alone)
SequencialJoinKeys == {<<<<"a">>, <<"a">>>>, <<<<>>, <<>>>>}

\* merged = self_records.merge_sequencial(right_records, 'b', 'c',
\*                                        join_left_key, join_right_key, how)
MergeSequencial ==
    /\ pc = "build"
    /\ \E how \in {"inner", "left", "right", "outer", "left_use_latest"},
          jk \in SequencialJoinKeys :
         LET out == Records_merge_sequencial(heap, prov, self_records,
                                             right_records, "b", "c",
                                             jk[1], jk[2], how)
         IN /\ heap' = out.heap
            /\ prov' = out.prov
            /\ self_records' = out.self
            /\ right_records' = out.right
            /\ merged_records' = out.merged
            /\ call' = [op |-> "merge_sequencial", how |-> how,
                        join_left_keys |-> jk[1], join_right_keys |-> jk[2],
                        left_stamp_key |-> "b", right_stamp_key |-> "c"]
    /\ pre' = Snapshot
    /\ pc' = "done"
    /\ UNCHANGED <<copy_records, sink_records,
                   concat_records, scanned, processing_records, sets,
                   group, a_record>>

NextSequencial == AppendSelf \/ AppendRight \/ MergeSequencial

SpecSequencial == InitTables /\ [][NextSequencial]_vars

SpecMerge == InitTables /\ [][NextMerge]_vars

---------------------------------------------------------------------------
(* The caller of the address-track merge: three tables are filled, then    *)
(* merge_sequencial_for_addr_track is called and its loop scans the rows   *)

\* rows per input table of the address-track merge
MaxSources == 2
MaxCopies == 1
MaxSinks == 2

\* timestamps and addresses (0xA, 0xB) of the address-track tables
Stamps == {1, 5, 10}
Addrs == {10, 11}

SourceColumns == <<"source_stamp", "source_key">>
CopyColumns == <<"copy_stamp", "copy_from", "copy_to">>
SinkColumns == <<"sink_stamp", "sink_from">>

\* the key arguments of the call
TrackCall ==
    [op |-> "merge_sequencial_for_addr_track",
     source_stamp_key |-> "source_stamp", source_key |-> "source_key",
     copy_stamp_key |-> "copy_stamp", copy_from_key |-> "copy_from",
     copy_to_key |-> "copy_to",
     sink_stamp_key |-> "sink_stamp", sink_from_key |-> "sink_from"]

InitAddrTrack ==
    /\ heap = <<>>
    /\ prov = <<>>
    /\ self_records = EmptyRecords(SourceColumns)
    /\ right_records = EmptyRecords(<<>>)
    /\ copy_records = EmptyRecords(CopyColumns)
    /\ sink_records = EmptyRecords(SinkColumns)
    /\ merged_records = EmptyRecords(<<>>)
    /\ concat_records = <<>>
    /\ scanned = 0
    /\ processing_records = <<>>
    /\ sets = <<>>
    /\ group = <<>>
    /\ a_record = EmptyRecord
    /\ call = NoCall
    /\ pre = NoPre
    /\ pc = "build"

\* Records.append(record) on the source table (self)
AppendSource ==
    /\ pc = "build"
    /\ Len(self_records.data) < MaxSources
    /\ Len(copy_records.data) = 0 /\ Len(sink_records.data) = 0
    /\ \E stamp \in Stamps, key \in Addrs :
         heap' = Append(heap, [source_stamp |-> stamp, source_key |-> key])
    /\ prov' = Append(prov, [l |-> Len(self_records.data) + 1, r |-> 0])
    /\ self_records' = [self_records EXCEPT !.data = Append(@, Len(heap) + 1)]
    /\ UNCHANGED <<right_records, copy_records, sink_records, merged_records,
                   concat_records, scanned, processing_records, sets,
                   group, a_record, call, pre, pc>>

\* Records.append(record) on copy_records
AppendCopy ==
    /\ pc = "build"
    /\ Len(copy_records.data) < MaxCopies
    /\ Len(sink_records.data) = 0
    /\ \E stamp \in Stamps, from \in Addrs, to \in Addrs :
         heap' = Append(heap, [copy_stamp |-> stamp, copy_from |-> from,
                               copy_to |-> to])
    /\ prov' = Append(prov, [l |-> 0, r |-> 0])
    /\ copy_records' = [copy_records EXCEPT !.data = Append(@, Len(heap) + 1)]
    /\ UNCHANGED <<self_records, right_records, sink_records, merged_records,
                   concat_records, scanned, processing_records, sets,
                   group, a_record, call, pre, pc>>

\* Records.append(record) on sink_records
AppendSink ==
    /\ pc = "build"
    /\ Len(sink_records.data) < MaxSinks
    /\ \E stamp \in Stamps, from \in Addrs :
         heap' = Append(heap, [sink_stamp |-> stamp, sink_from |-> from])
    /\ prov' = Append(prov, [l |-> 0, r |-> Len(sink_records.data) + 1])
    /\ sink_records' = [sink_records EXCEPT !.data = Append(@, Len(heap) + 1)]
    /\ UNCHANGED <<self_records, right_records, copy_records, merged_records,
                   concat_records, scanned, processing_records, sets,
                   group, a_record, call, pre, pc>>

SnapshotTrack ==
    [heap |-> heap, self |-> self_records, copy |-> copy_records,
     sink |-> sink_records]

\* The loop of lines 859-890 has done its row: it goes on to the next row,
\* or, behind the last row, lines 892-901 finish the call with heap h and
\* returned table merged
LeaveRow(h, merged) ==
    IF scanned + 1 < Len(concat_records)
    THEN /\ heap' = h
         /\ merged_records' = merged
         /\ pc' = "scan"
    ELSE LET out == AddrTrackFinish(h, merged,
                        ResultColumns(self_records, copy_records, sink_records, call),
                        call)
         IN /\ heap' = out.heap
            /\ merged_records' = out.merged
            /\ pc' = "done"

\* merged = source_records.merge_sequencial_for_addr_track(...): the call
\* up to the loop; with no row at all the call returns at once
MergeSequencialForAddrTrack ==
    /\ pc = "build"
    /\ LET c == TrackCall
           setup == AddrTrackSetup(heap, prov, self_records, copy_records,
                                   sink_records, c)
           merged == EmptyRecords(setup.columns)
       IN /\ prov' = setup.prov
          /\ concat_records' = setup.concat
          /\ call' = c
          /\ IF setup.concat # <<>>
             THEN /\ heap' = setup.heap
                  /\ merged_records' = merged
                  /\ pc' = "scan"
             ELSE LET out == AddrTrackFinish(setup.heap, merged,
                                 ResultColumns(self_records, copy_records,
                                               sink_records, c), c)
                  IN /\ heap' = out.heap
                     /\ merged_records' = out.merged
                     /\ pc' = "done"
    /\ scanned' = 0
    /\ processing_records' = <<>>
    /\ sets' = <<>>
    /\ pre' = SnapshotTrack
    /\ UNCHANGED <<self_records, right_records, copy_records, sink_records,
                   group, a_record>>

\* the row the loop is at
record == concat_records[scanned + 1]

\* one iteration of the loop on a SINK row
ScanSink ==
    /\ pc = "scan"
    /\ heap[record][column_type] = SINK
    /\ LET out == ScanSinkRow(heap, sets, processing_records, record, call)
       IN /\ sets' = out.sets
          /\ processing_records' = out.processing
          /\ LeaveRow(out.heap, merged_records)
    /\ scanned' = scanned + 1
    /\ UNCHANGED <<prov, self_records, right_records, copy_records, sink_records,
                   concat_records, group, a_record, call, pre>>

\* one iteration of the loop on a COPY row
ScanCopy ==
    /\ pc = "scan"
    /\ heap[record][column_type] = COPY
    /\ LET out == ScanCopyRow(heap, sets, processing_records, record, call)
       IN /\ sets' = out.sets
          /\ processing_records' = out.processing
          /\ LeaveRow(out.heap, merged_records)
    /\ scanned' = scanned + 1
    /\ UNCHANGED <<prov, self_records, right_records, copy_records, sink_records,
                   concat_records, group, a_record, call, pre>>

\* one iteration of the loop on a SOURCE row
ScanSource ==
    /\ pc = "scan"
    /\ heap[record][column_type] = SOURCE
    /\ LET out == ScanSourceRow(heap, prov, sets, processing_records,
                                merged_records, record, call)
       IN /\ prov' = out.prov
          /\ processing_records' = out.processing
          /\ LeaveRow(out.heap, out.merged)
    /\ scanned' = scanned + 1
    /\ UNCHANGED <<sets, self_records, right_records, copy_records, sink_records,
                   concat_records, group, a_record, call, pre>>

NextAddrTrack ==
    \/ AppendSource \/ AppendCopy \/ AppendSink
    \/ MergeSequencialForAddrTrack
    \/ ScanSink \/ ScanCopy \/ ScanSource

SpecAddrTrack == InitAddrTrack /\ [][NextAddrTrack]_vars

---------------------------------------------------------------------------
(* The caller of Records.sort: a table is filled, then sorted, and sorted  *)
(* once more                                                               *)

\* rows of the table that is sorted or grouped
MaxSortRows == 3
\* sort calls in a row
MaxSorts == 2

\* the variables of the merges, which the table operations leave alone
merge_vars ==
    <<prov, right_records, copy_records, sink_records, merged_records,
      concat_records, scanned, processing_records, sets, group, a_record>>

\* key arguments of the sort calls: one column, or a list of columns
SortKeys == {<<"a">>, <<"b">>, <<"a", "b">>}

\* Records.append(record), with a record of known columns, while the table
\* is filled for sorting or grouping
AppendRow ==
    /\ pc = "build"
    /\ Len(self_records.data) < MaxSortRows
    /\ \E row \in RowsOver(Range(self_records.columns), Values) :
         heap' = Append(heap, row)
    /\ self_records' = [self_records EXCEPT !.data = Append(@, Len(heap) + 1)]
    /\ UNCHANGED <<merge_vars, call, pre, pc>>

\* self_records.sort(key, ascending)
Sort ==
    /\ pc \in {"build", "done"}
    /\ (IF call.op = "sort" THEN call.n ELSE 0) < MaxSorts
    /\ \E key \in SortKeys, ascending \in BOOLEAN :
         /\ self_records' = [self_records EXCEPT
                               !.data = Records_sort(heap, @, key, ascending)]
         /\ call' = [op |-> "sort", key |-> key, ascending |-> ascending,
                     n |-> IF call.op = "sort" THEN call.n + 1 ELSE 1,
                     prev_key |-> IF call.op = "sort" THEN call.key ELSE <<>>,
                     prev_ascending |-> call.op = "sort" /\ call.ascending]
    /\ pre' = Snapshot
    /\ pc' = "done"
    /\ UNCHANGED <<heap, merge_vars>>

NextSort == AppendRow \/ Sort

SpecSort == InitTables /\ [][NextSort]_vars

---------------------------------------------------------------------------
(* The caller of Records.groupby: a table is filled, then grouped *)

\* columns arguments of the groupby calls
GroupColumns == {<<"a">>, <<"b">>, <<"a", "b">>}

\* group = self_records.groupby(columns)
Groupby ==
    /\ pc = "build"
    /\ \E columns \in GroupColumns :
         /\ group' = Records_groupby(<<>>, heap, self_records, columns, 1)
         /\ call' = [op |-> "groupby", columns |-> columns]
    /\ pre' = Snapshot
    /\ pc' = "done"
    /\ UNCHANGED <<heap, prov, self_records, right_records, copy_records,
                   sink_records, merged_records, concat_records, scanned,
                   processing_records, sets, a_record>>

NextGroupby == AppendRow \/ Groupby

SpecGroupby == InitTables /\ [][NextGroupby]_vars

---------------------------------------------------------------------------
(* The caller of Records.bind_drop_as_delay: a table of three columns is   *)
(* filled, then the call is made, and made once more                       *)

\* bind_drop_as_delay calls in a row
MaxBinds == 2

DelayColumns == <<"a", "b", "c">>

InitDelay ==
    /\ heap = <<>>
    /\ prov = <<>>
    /\ self_records = EmptyRecords(DelayColumns)
    /\ right_records = EmptyRecords(<<>>)
    /\ copy_records = EmptyRecords(<<>>)
    /\ sink_records = EmptyRecords(<<>>)
    /\ merged_records = EmptyRecords(<<>>)
    /\ concat_records = <<>>
    /\ scanned = 0
    /\ processing_records = <<>>
    /\ sets = <<>>
    /\ group = <<>>
    /\ a_record = EmptyRecord
    /\ call = NoCall
    /\ pre = NoPre
    /\ pc = "build"

\* self_records.bind_drop_as_delay()
BindDropAsDelay ==
    /\ pc \in {"build", "done"}
    /\ (IF call.op = "bind_drop_as_delay" THEN call.n ELSE 0) < MaxBinds
    /\ LET out == Records_bind_drop_as_delay(heap, self_records)
       IN /\ heap' = out.heap
          /\ self_records' = [self_records EXCEPT !.data = out.data]
    /\ call' = [op |-> "bind_drop_as_delay",
                n |-> IF call.op = "bind_drop_as_delay" THEN call.n + 1 ELSE 1,
                \* history: the rows before the first of the calls
                first |-> IF call.op = "bind_drop_as_delay" THEN call.first
                          ELSE [p \in DOMAIN self_records.data |->
                                   heap[self_records.data[p]]]]
    /\ pre' = Snapshot
    /\ pc' = "done"
    /\ UNCHANGED merge_vars

NextDelay == AppendRow \/ BindDropAsDelay

SpecDelay == InitDelay /\ [][NextDelay]_vars

---------------------------------------------------------------------------
(* The callers of the mutating methods: self_records is filled by append,  *)
(* right_records is the other table of concat; then concat, append_column, *)
(* column renames and column drops are called on self_records              *)

\* mutating calls after the appends
MaxMutations == 3
\* rows of self_records after a concat
MaxConcatRows == 3
\* rows of right_records
MaxOtherRows == 1

OtherColumns == {<<"a">>, <<"a", "c">>}

\* the records handed to append: of known columns, or with the column c
AppendRecords == RowsOver({"a", "b"}, Values) \cup {[a |-> 0, c |-> 1], [c |-> 0]}

\* the value lists handed to append_column for a table of n rows: every
\* list of the right length, and one that is too long
ValueLists(n) == [1 .. n -> Values] \cup {[i \in 1 .. n + 1 |-> 0]}

InitMutate ==
    /\ heap = <<>>
    /\ prov = <<>>
    /\ self_records = EmptyRecords(SelfColumns)
    /\ \E columns \in OtherColumns : right_records = EmptyRecords(columns)
    /\ copy_records = EmptyRecords(<<>>)
    /\ sink_records = EmptyRecords(<<>>)
    /\ merged_records = EmptyRecords(<<>>)
    /\ concat_records = <<>>
    /\ scanned = 0
    /\ processing_records = <<>>
    /\ sets = <<>>
    /\ group = <<>>
    /\ a_record = EmptyRecord
    /\ call = NoCall
    /\ pre = NoPre
    /\ pc = "build"

track_vars == <<prov, copy_records, sink_records, merged_records, concat_records,
      scanned, processing_records, sets, group, a_record>>

\* right_records.append(record), with a record of known columns
AppendOther ==
    /\ pc = "build" /\ call = NoCall
    /\ Len(right_records.data) < MaxOtherRows
    /\ \E row \in RowsOver(Range(right_records.columns), Values) :
         /\ heap' = Append(heap, row)
         /\ right_records' = [right_records EXCEPT !.data = Append(@, Len(heap) + 1)]
    /\ UNCHANGED <<self_records, track_vars, call, pre, pc>>

\* self_records.append(record)
AppendRecord ==
    /\ pc = "build"
    /\ Len(self_records.data) < MaxRows
    /\ \E row \in AppendRecords :
         LET unknown_columns == DOMAIN row \ Range(self_records.columns)
         IN IF unknown_columns # {}
            THEN /\ call' = [op |-> "append", n |-> 0, raised |-> TRUE,
                             record |-> row]
                 /\ UNCHANGED <<heap, self_records>>
            ELSE /\ heap' = Append(heap, row)
                 /\ self_records' = [self_records EXCEPT !.data = Append(@, Len(heap) + 1)]
                 /\ call' = [op |-> "append", n |-> 0, raised |-> FALSE,
                             record |-> row]
    /\ pre' = Snapshot
    /\ UNCHANGED <<right_records, track_vars, pc>>

Mutations == IF call.op \in {"none", "append"} THEN 0 ELSE call.n

\* self_records.concat(right_records)
Concat ==
    /\ Mutations < MaxMutations
    /\ Len(self_records.data) + Len(right_records.data) <= MaxConcatRows
    /\ LET unknown_columns == Range(right_records.columns) \ Range(self_records.columns)
       IN IF unknown_columns # {}
          THEN /\ call' = [op |-> "concat", n |-> Mutations + 1, raised |-> TRUE]
               /\ UNCHANGED self_records
          ELSE /\ self_records' = Records_concat(self_records, right_records)
               /\ call' = [op |-> "concat", n |-> Mutations + 1, raised |-> FALSE]
    /\ pre' = Snapshot
    /\ pc' = "done"
    /\ UNCHANGED <<heap, right_records, track_vars>>

\* self_records.append_column(ColumnValue("c"), values)
AppendColumn ==
    /\ Mutations < MaxMutations
    /\ "c" \notin Range(self_records.columns)
    /\ \E values \in ValueLists(Len(self_records.data)) :
         IF Len(values) # Len(self_records.data)
         THEN /\ call' = [op |-> "append_column", n |-> Mutations + 1,
                          raised |-> TRUE, column |-> "c", values |-> values]
              /\ UNCHANGED <<heap, self_records>>
         ELSE LET out == Records_append_column_values(heap, self_records, "c", values)
              IN /\ heap' = out.heap
                 /\ self_records' = out.rec
                 /\ call' = [op |-> "append_column", n |-> Mutations + 1,
                             raised |-> FALSE, column |-> "c", values |-> values]
    /\ pre' = Snapshot
    /\ pc' = "done"
    /\ UNCHANGED <<right_records, track_vars>>

\* self_records.columns.rename({old: "x"}), for a column old of the table
RenameColumn ==
    /\ Mutations < MaxMutations
    /\ "x" \notin Range(self_records.columns)
    /\ \E old \in Range(self_records.columns) :
         LET out == Columns_rename(heap, self_records, old, "x")
         IN /\ heap' = out.heap
            /\ self_records' = out.rec
            /\ call' = [op |-> "rename", n |-> Mutations + 1, raised |-> FALSE,
                        old |-> old, new |-> "x"]
    /\ pre' = Snapshot
    /\ pc' = "done"
    /\ UNCHANGED <<right_records, track_vars>>

\* self_records.columns.drop([name]), for a column name of the table
DropColumn ==
    /\ Mutations < MaxMutations
    /\ \E name \in Range(self_records.columns) :
         LET out == Columns_drop(heap, self_records, {name})
         IN /\ heap' = out.heap
            /\ self_records' = out.rec
            /\ call' = [op |-> "drop", n |-> Mutations + 1, raised |-> FALSE,
                        name |-> name]
    /\ pre' = Snapshot
    /\ pc' = "done"
    /\ UNCHANGED <<right_records, track_vars>>

NextMutate ==
    \/ AppendOther
    \/ AppendRecord
    \/ Concat
    \/ AppendColumn
    \/ RenameColumn
    \/ DropColumn

SpecMutate == InitMutate /\ [][NextMutate]_vars

---------------------------------------------------------------------------
(* The callers of class Record: one record, a_record, and the calls of     *)
(* add, drop_columns, merge and change_dict_key on it                      *)

\* names in the list handed to drop_columns
MaxDropNames == 2
\* calls on the record
MaxRecordCalls == 3

Keys == {"a", "b"}

\* the lists of names handed to drop_columns
DropLists == UNION {[1 .. n -> Keys] : n \in 0 .. MaxDropNames}

record_vars == <<heap, prov, self_records, right_records, copy_records, sink_records,
      merged_records, concat_records, scanned, processing_records, sets, group>>

RecordCalls == IF call.op = "none" THEN 0 ELSE call.n

RecordAdd ==
    /\ RecordCalls < MaxRecordCalls
    /\ \E key \in Keys, stamp \in Values :
         /\ a_record' = Rec_add(a_record, key, stamp)
         /\ call' = [op |-> "add", n |-> RecordCalls + 1, raised |-> FALSE,
                     key |-> key, stamp |-> stamp]
    /\ pre' = [record |-> a_record]
    /\ pc' = "done"
    /\ UNCHANGED record_vars

RecordDropColumns ==
    /\ RecordCalls < MaxRecordCalls
    /\ \E columns \in DropLists :
         LET out == Rec_drop_columns(a_record, columns)
         IN /\ a_record' = [data |-> out.data, columns |-> out.columns]
            /\ call' = [op |-> "drop_columns", n |-> RecordCalls + 1,
                        raised |-> out.raised, columns |-> columns]
    /\ pre' = [record |-> a_record]
    /\ pc' = "done"
    /\ UNCHANGED record_vars

RecordMerge ==
    /\ RecordCalls < MaxRecordCalls
    /\ \E init \in RowsOver(Keys, Values) :
         /\ a_record' = Rec_merge(a_record, Rec_init(init))
         /\ call' = [op |-> "merge", n |-> RecordCalls + 1, raised |-> FALSE,
                     other |-> init]
    /\ pre' = [record |-> a_record]
    /\ pc' = "done"
    /\ UNCHANGED record_vars

RecordChangeDictKey ==
    /\ RecordCalls < MaxRecordCalls
    /\ \E old_key \in DOMAIN a_record.data, new_key \in Keys \cup {"x"} :
         /\ a_record' = Rec_change_dict_key(a_record, old_key, new_key)
         /\ call' = [op |-> "change_dict_key", n |-> RecordCalls + 1,
                     raised |-> FALSE, old_key |-> old_key, new_key |-> new_key]
    /\ pre' = [record |-> a_record]
    /\ pc' = "done"
    /\ UNCHANGED record_vars

NextRecord ==
    \/ RecordAdd
    \/ RecordDropColumns
    \/ RecordMerge
    \/ RecordChangeDictKey

SpecRecord == InitTables /\ [][NextRecord]_vars

---------------------------------------------------------------------------
(* What the claims speak of: the inputs as they were at the call, and the  *)
(* rows of the returned table with the input rows each came from           *)

Called(op) == pc = "done" /\ call.op = op

LeftRow(i) == pre.heap[pre.self.data[i]]
RightRow(j) == pre.heap[pre.right.data[j]]
LeftIdx == DOMAIN pre.self.data
RightIdx == DOMAIN pre.right.data

ResultIdx == DOMAIN merged_records.data
ResultRow(k) == heap[merged_records.data[k]]
ResultProv(k) == prov[merged_records.data[k]]
Paired(k) == ResultProv(k).l > 0 /\ ResultProv(k).r > 0
LeftOnly(k) == ResultProv(k).l > 0 /\ ResultProv(k).r = 0
RightOnly(k) == ResultProv(k).l = 0 /\ ResultProv(k).r > 0

HasKeys(row, keys) == Range(keys) \subseteq DOMAIN row
KeyTuple(row, keys) == [i \in DOMAIN keys |-> row[keys[i]]]
LeftValid(i) == HasKeys(LeftRow(i), call.join_left_keys)
RightValid(j) == HasKeys(RightRow(j), call.join_right_keys)
LeftKey(i) == KeyTuple(LeftRow(i), call.join_left_keys)
RightKey(j) == KeyTuple(RightRow(j), call.join_right_keys)

\* a left row and a right row that both carry their join keys, with equal tuples
Matches(i, j) == LeftValid(i) /\ RightValid(j) /\ LeftKey(i) = RightKey(j)

\* self's columns, then right's columns that self does not have
OrderedUnion(c1, c2) == c1 \o SelectSeq(c2, LAMBDA c: c \notin Range(c1))

\* the row is made of the cells of l and r and of nothing else
Combines(row, l, r) ==
    /\ DOMAIN row = DOMAIN l \cup DOMAIN r
    /\ \A c \in DOMAIN row :
         \/ c \in DOMAIN l /\ row[c] = l[c]
         \/ c \in DOMAIN r /\ row[c] = r[c]

TmpNames == {column_side, column_found_right_record, column_has_valid_join_key,
             column_merge_stamp, column_has_merge_stamp, column_sub_records}
            \cup Range(JoinKeyNames)

---------------------------------------------------------------------------
(* Claims on the keyed merge, checked under SpecMerge *)

\* C1: the keyed merge with how=inner returns exactly one row for every pair
\* of a left and a right row that both carry their join keys with equal
\* tuples, and no other row; its columns are the ordered union of the left
\* and the right columns.
C1_InnerPairs ==
    (Called("merge") /\ call.how = "inner") =>
        /\ \A i \in LeftIdx, j \in RightIdx :
             Matches(i, j) =>
               Cardinality({k \in ResultIdx :
                              ResultProv(k) = [l |-> i, r |-> j]}) = 1
        /\ \A k \in ResultIdx :
             /\ Paired(k)
             /\ Matches(ResultProv(k).l, ResultProv(k).r)
             /\ Combines(ResultRow(k), LeftRow(ResultProv(k).l),
                         RightRow(ResultProv(k).r))
        /\ merged_records.columns =
               OrderedUnion(pre.self.columns, pre.right.columns)

\* an inner merge that paired some rows and left a row of each side unpaired
C1_Witness ==
    /\ Called("merge") /\ call.how = "inner"
    /\ Len(merged_records.data) >= 1
    /\ \E i \in LeftIdx : \A j \in RightIdx : ~Matches(i, j)
    /\ \E j \in RightIdx : \A i \in LeftIdx : ~Matches(i, j)

LeftUnmatched(i) == \A j \in RightIdx : ~Matches(i, j)
RightUnmatched(j) == \A i \in LeftIdx : ~Matches(i, j)

\* C2: a left row with no matching right row (or lacking a join key) is in
\* the result exactly once, unpaired, iff how is left or outer; a right row
\* with no matching left row (or lacking a join key) is in the result
\* exactly once, unpaired, iff how is right or outer.
C2_Unmatched ==
    Called("merge") =>
        /\ \A i \in LeftIdx :
             LeftUnmatched(i) =>
               LET hits == {k \in ResultIdx : ResultProv(k).l = i}
               IN IF call.how \in {"left", "outer"}
                  THEN /\ Cardinality(hits) = 1
                       /\ \A k \in hits : LeftOnly(k) /\ ResultRow(k) = LeftRow(i)
                  ELSE hits = {}
        /\ \A j \in RightIdx :
             RightUnmatched(j) =>
               LET hits == {k \in ResultIdx : ResultProv(k).r = j}
               IN IF call.how \in {"right", "outer"}
                  THEN /\ Cardinality(hits) = 1
                       /\ \A k \in hits : RightOnly(k) /\ ResultRow(k) = RightRow(j)
                  ELSE hits = {}

\* a left merge that kept an unmatched left row, one lacking its join key
C2_Witness ==
    /\ Called("merge") /\ call.how = "left"
    /\ \E i \in LeftIdx : ~LeftValid(i)
    /\ \E i \in LeftIdx : LeftValid(i) /\ LeftUnmatched(i)
    /\ \E j \in RightIdx : RightUnmatched(j)
    /\ \E k \in ResultIdx : LeftOnly(k)

\* C3 as claimed: with how=outer all paired rows come first, then all
\* unmatched left rows, then all unmatched right rows.
C3_OuterOrderBySide ==
    (Called("merge") /\ call.how = "outer") =>
        \A k1, k2 \in ResultIdx :
            k1 < k2 =>
              /\ ~(~Paired(k1) /\ Paired(k2))
              /\ ~(RightOnly(k1) /\ LeftOnly(k2))

\* C3 as amended: with how=outer all paired rows come before all unmatched
\* rows (the unmatched rows of the two sides follow in the order the
\* sweep met them, not side by side).
C3_OuterPairedFirst ==
    (Called("merge") /\ call.how = "outer") =>
        \A k1, k2 \in ResultIdx : k1 < k2 => ~(~Paired(k1) /\ Paired(k2))

\* an outer merge with a paired row, and an unmatched right row in front of
\* an unmatched left row
C3_Witness ==
    /\ Called("merge") /\ call.how = "outer"
    /\ \E k \in ResultIdx : Paired(k)
    /\ \E k1, k2 \in ResultIdx : k1 < k2 /\ RightOnly(k1) /\ LeftOnly(k2)

\* no two right rows that carry their join keys have the same tuple
RightInjective ==
    \A j1, j2 \in RightIdx :
        (RightValid(j1) /\ RightValid(j2) /\ RightKey(j1) = RightKey(j2)) => j1 = j2

Project(row, columns) == [c \in DOMAIN row \cap Range(columns) |-> row[c]]

StrictlyIncreasing(f) == \A x, y \in DOMAIN f : x < y => f[x] < f[y]

\* C4 as claimed: how=inner, right keys injective: the result rows projected
\* onto the left columns are a sub-sequence of the left rows.
C4_ProjectionSubsequence ==
    (Called("merge") /\ call.how = "inner" /\ RightInjective) =>
        \E f \in [ResultIdx -> LeftIdx] :
            /\ StrictlyIncreasing(f)
            /\ \A k \in ResultIdx :
                 Project(ResultRow(k), pre.self.columns) = LeftRow(f[k])

\* C4 as amended: how=inner, right keys injective: every result row comes
\* from a left row of its own and carries every cell of that left row
\* unchanged; the result rows are in ascending order of the join-key tuple,
\* left rows of equal tuples in their input order.
C4_ProjectionByKey ==
    (Called("merge") /\ call.how = "inner" /\ RightInjective) =>
        /\ \A k \in ResultIdx :
             /\ ResultProv(k).l \in LeftIdx
             /\ \A c \in DOMAIN LeftRow(ResultProv(k).l) :
                  /\ c \in DOMAIN ResultRow(k)
                  /\ ResultRow(k)[c] = LeftRow(ResultProv(k).l)[c]
        /\ \A k1, k2 \in ResultIdx :
             k1 < k2 =>
               LET l1 == ResultProv(k1).l
                   l2 == ResultProv(k2).l
               IN \/ TupleLess(LeftKey(l1), LeftKey(l2))
                  \/ LeftKey(l1) = LeftKey(l2) /\ l1 < l2

\* an inner merge on injective right keys whose result reverses two left rows
C4_Witness ==
    /\ Called("merge") /\ call.how = "inner" /\ RightInjective
    /\ \E k1, k2 \in ResultIdx : k1 < k2 /\ ResultProv(k1).l > ResultProv(k2).l

\* C5: after a keyed merge both inputs have the columns and the row contents
\* they had before the call, and no column and no cell named _tmp_... is in
\* an input or in the returned table.
C5_MergeLeavesInputs ==
    Called("merge") =>
        /\ self_records = pre.self
        /\ right_records = pre.right
        /\ \A id \in Range(pre.self.data) \cup Range(pre.right.data) :
             heap[id] = pre.heap[id]
        /\ Range(merged_records.columns) \cap TmpNames = {}
        /\ \A k \in ResultIdx : DOMAIN ResultRow(k) \cap TmpNames = {}

---------------------------------------------------------------------------
(* Claims on the sequential merge, checked under SpecSequencial *)

\* C6: after a sequential merge both inputs have the columns and the row
\* contents they had before the call, and no cell named _tmp_... is left in
\* an input row or in a returned row.
C6_SequencialLeavesInputs ==
    Called("merge_sequencial") =>
        /\ self_records = pre.self
        /\ right_records = pre.right
        /\ \A id \in Range(pre.self.data) \cup Range(pre.right.data) :
             heap[id] = pre.heap[id]
        /\ \A k \in ResultIdx : DOMAIN ResultRow(k) \cap TmpNames = {}

LeftStamped(i) == call.left_stamp_key \in DOMAIN LeftRow(i)
RightStamped(j) == call.right_stamp_key \in DOMAIN RightRow(j)
LeftStamp(i) == LeftRow(i)[call.left_stamp_key]
RightStamp(j) == RightRow(j)[call.right_stamp_key]

\* the order of time within one side: by stamp, rows of equal stamps in
\* their input order
LeftBefore(i1, i2) ==
    \/ LeftStamp(i1) < LeftStamp(i2)
    \/ LeftStamp(i1) = LeftStamp(i2) /\ i1 < i2
RightBefore(j1, j2) ==
    \/ RightStamp(j1) < RightStamp(j2)
    \/ RightStamp(j1) = RightStamp(j2) /\ j1 < j2

\* right rows that carry their stamp and their join keys
RightReady(j) == RightStamped(j) /\ RightValid(j)

\* the left rows that precede the right row j (a left row of the same stamp
\* precedes it) and have its join-key tuple
Preceding(j) ==
    {i \in LeftIdx : /\ LeftStamped(i)
                     /\ Matches(i, j)
                     /\ LeftStamp(i) <= RightStamp(j)}

\* the latest row of a non-empty set of stamped left rows
Latest(S) == CHOOSE i \in S : \A i2 \in S \ {i} : LeftBefore(i2, i)

\* the right rows that follow the left row i before the next left row of
\* the same join-key tuple
Attached(i) ==
    {j \in RightIdx : /\ RightReady(j)
                      /\ Preceding(j) # {}
                      /\ Latest(Preceding(j)) = i}

PairsOf(i, j) == {k \in ResultIdx : ResultProv(k) = [l |-> i, r |-> j]}

\* C7: how other than left_use_latest: every left row and every right row
\* is in at most one paired row, and the two rows of a pair carry their
\* stamps and join keys, have equal join-key tuples, and the left stamp is
\* not larger than the right stamp (equal stamps pair).
C7_SequencialPairs ==
    (Called("merge_sequencial") /\ call.how # "left_use_latest") =>
        /\ \A i \in LeftIdx :
             Cardinality({k \in ResultIdx : Paired(k) /\ ResultProv(k).l = i}) <= 1
        /\ \A j \in RightIdx :
             Cardinality({k \in ResultIdx : Paired(k) /\ ResultProv(k).r = j}) <= 1
        /\ \A k \in ResultIdx :
             Paired(k) =>
               LET i == ResultProv(k).l
                   j == ResultProv(k).r
               IN /\ LeftStamped(i) /\ RightStamped(j)
                  /\ Matches(i, j)
                  /\ LeftStamp(i) <= RightStamp(j)

\* a merge on a join key that paired a left and a right row of the same
\* stamp, the left row having a second right row behind it
C7_Witness ==
    /\ Called("merge_sequencial") /\ call.how # "left_use_latest"
    /\ call.join_left_keys # <<>>
    /\ \E k \in ResultIdx :
         /\ Paired(k)
         /\ LeftStamp(ResultProv(k).l) = RightStamp(ResultProv(k).r)
         /\ Cardinality(Attached(ResultProv(k).l)) = 2

\* C8 as claimed: how other than left_use_latest: a right row with stamp and
\* join keys is paired with the latest preceding left row of its join-key
\* tuple that no earlier right row is paired with, whenever there is one.
C8_RightBindsLatestUnbound ==
    (Called("merge_sequencial") /\ call.how # "left_use_latest") =>
        \A j \in RightIdx :
            RightReady(j) =>
              LET unbound ==
                    {i \in Preceding(j) :
                        ~\E j2 \in RightIdx :
                            /\ RightStamped(j2)
                            /\ RightBefore(j2, j)
                            /\ PairsOf(i, j2) # {}}
              IN unbound # {} => PairsOf(Latest(unbound), j) # {}

\* C8 as amended: how other than left_use_latest: a right row with stamp and
\* join keys is paired with no left row other than the latest preceding left
\* row of its join-key tuple, and it is paired with that one exactly when it
\* is the earliest right row attached to it; an earlier left row of the tuple
\* is never taken instead.
C8_RightBindsLatest ==
    (Called("merge_sequencial") /\ call.how # "left_use_latest") =>
        \A j \in RightIdx :
            RightReady(j) =>
              LET hits == {k \in ResultIdx : Paired(k) /\ ResultProv(k).r = j}
              IN IF Preceding(j) = {} THEN hits = {}
                 ELSE LET i == Latest(Preceding(j))
                          first == \A j2 \in Attached(i) \ {j} : RightBefore(j, j2)
                      IN IF first
                         THEN Cardinality(hits) = 1 /\ hits = PairsOf(i, j)
                         ELSE hits = {}

\* two left rows in front of two right rows, all of one join-key tuple: the
\* later left row is paired, the earlier left row and the later right row
\* are both in the result unpaired
C8_Witness ==
    /\ Called("merge_sequencial") /\ call.how = "outer"
    /\ call.join_left_keys # <<>>
    /\ \E j1, j2 \in RightIdx :
         /\ RightReady(j1) /\ RightReady(j2)
         /\ Cardinality(Preceding(j1)) = 2
         /\ Preceding(j2) = Preceding(j1)
         /\ PairsOf(Latest(Preceding(j1)), j1) # {}
         /\ \E k \in ResultIdx : RightOnly(k) /\ ResultProv(k).r = j2
         /\ \E k \in ResultIdx :
              LeftOnly(k) /\ ResultProv(k).l \in Preceding(j1)

\* C9: how=left_use_latest: a left row with n >= 1 attached right rows gives
\* exactly n result rows, one for each attached right row in the order of
\* time, each made of that left row and that right row; a right row with no
\* preceding left row of its join-key tuple is not in the result.
C9_LeftUseLatest ==
    (Called("merge_sequencial") /\ call.how = "left_use_latest") =>
        /\ \A i \in LeftIdx :
             (LeftStamped(i) /\ LeftValid(i) /\ Attached(i) # {}) =>
               LET rows == {k \in ResultIdx : ResultProv(k).l = i}
               IN /\ Cardinality(rows) = Cardinality(Attached(i))
                  /\ \A j \in Attached(i) :
                       /\ Cardinality(PairsOf(i, j)) = 1
                       /\ \A k \in PairsOf(i, j) :
                            Combines(ResultRow(k), LeftRow(i), RightRow(j))
                  /\ \A k1, k2 \in rows :
                       k1 < k2 => RightBefore(ResultProv(k1).r, ResultProv(k2).r)
        /\ \A j \in RightIdx :
             (~RightReady(j) \/ Preceding(j) = {}) =>
               {k \in ResultIdx : ResultProv(k).r = j} = {}

\* a left_use_latest merge in which one left row took two right rows
C9_Witness ==
    /\ Called("merge_sequencial") /\ call.how = "left_use_latest"
    /\ \E i \in LeftIdx :
         /\ Cardinality(Attached(i)) = 2
         /\ Cardinality({k \in ResultIdx : ResultProv(k).l = i}) = 2
    /\ \E i \in LeftIdx : LeftStamped(i) /\ Attached(i) = {}

---------------------------------------------------------------------------
(* Claims on the address-track merge, checked under SpecAddrTrack *)

SourceRow(i) == pre.heap[pre.self.data[i]]
CopyRow(i) == pre.heap[pre.copy.data[i]]
SinkRow(j) == pre.heap[pre.sink.data[j]]

\* the call was made on one source row of key 0xA, one copy row from 0xA to
\* 0xB and one sink row of sink_from 0xB, with the three stamps
Scenario(source_stamp, copy_stamp, sink_stamp) ==
    /\ Called("merge_sequencial_for_addr_track")
    /\ Len(pre.self.data) = 1 /\ Len(pre.copy.data) = 1 /\ Len(pre.sink.data) = 1
    /\ SourceRow(1) = [source_stamp |-> source_stamp, source_key |-> 10]
    /\ CopyRow(1) = [copy_stamp |-> copy_stamp, copy_from |-> 10, copy_to |-> 11]
    /\ SinkRow(1) = [sink_stamp |-> sink_stamp, sink_from |-> 11]

\* the returned table is the one row that joins source row 1 and sink row 1
OneJoinedRow ==
    /\ Len(merged_records.data) = 1
    /\ ResultProv(1) = [l |-> 1, r |-> 1]
    /\ ResultRow(1) = [source_stamp |-> SourceRow(1).source_stamp,
                       source_key |-> SourceRow(1).source_key,
                       sink_stamp |-> SinkRow(1).sink_stamp]

\* C10 as claimed: Source [{stamp 10, key A}], Copy [{stamp 5, from A, to
\* B}], Sink [{stamp 1, sink_from B}] gives exactly one merged row, joining
\* the source row and the sink row.
C10_ScenarioJoins ==
    Scenario(10, 5, 1) => OneJoinedRow

\* C10 as amended: one source row of key A, one copy row from A to B and one
\* sink row of sink_from B give exactly one merged row, joining the source
\* row and the sink row, when source stamp < copy stamp < sink stamp (as
\* with the stamps 1, 5, 10), and no row for any other order of the stamps,
\* the stamps 10, 5, 1 included.
C10_ScenarioJoinsForwardInTime ==
    \A s \in Stamps, c \in Stamps, k \in Stamps :
        Scenario(s, c, k) =>
            IF s < c /\ c < k THEN OneJoinedRow
            ELSE merged_records.data = <<>>

\* the call on the scenario's rows with the stamps 1, 5, 10 has returned
\* its one row
C10_Witness ==
    /\ Scenario(1, 5, 10)
    /\ OneJoinedRow
    /\ merged_records.columns = <<"source_stamp", "source_key", "sink_stamp">>

\* the address addr held at time t_hi goes back to the source row i: it is
\* the source's key, or a copy row between the two in time copied it from
\* an address that goes back to the source
RECURSIVE LinkedBack(_, _, _)
LinkedBack(addr, t_hi, i) ==
    \/ addr = SourceRow(i).source_key
    \/ \E n \in DOMAIN pre.copy.data :
         /\ CopyRow(n).copy_to = addr
         /\ SourceRow(i).source_stamp < CopyRow(n).copy_stamp
         /\ CopyRow(n).copy_stamp < t_hi
         /\ LinkedBack(CopyRow(n).copy_from, CopyRow(n).copy_stamp, i)

\* the sink row j has a source row before it that its address goes back to
HasSource(j) ==
    \E i \in DOMAIN pre.self.data :
        /\ SourceRow(i).source_stamp < SinkRow(j).sink_stamp
        /\ LinkedBack(SinkRow(j).sink_from, SinkRow(j).sink_stamp, i)

\* C11: every sink row that has a source row before it, of its own address
\* or linked to it by copy rows between the two, is in exactly one row of
\* the result; so are two sink rows of one sink_from behind such a source.
C11_EverySinkJoined ==
    Called("merge_sequencial_for_addr_track") =>
        \A j \in DOMAIN pre.sink.data :
            HasSource(j) =>
              Cardinality({k \in ResultIdx : ResultProv(k).r = j}) = 1

---------------------------------------------------------------------------
(* Claims on Records.sort, checked under SpecSort *)

\* the table's rows, in order, before the last call and now
RowsBefore == [p \in DOMAIN pre.self.data |-> pre.heap[pre.self.data[p]]]
RowsNow == [p \in DOMAIN self_records.data |-> heap[self_records.data[p]]]

\* where the row now at place p stood before the last call
PlaceBefore(p) ==
    CHOOSE q \in DOMAIN pre.self.data : pre.self.data[q] = self_records.data[p]

\* the key tuple of a row, a missing key counting as MAX
SortTuple(row, keys) ==
    [i \in DOMAIN keys |-> IF keys[i] \in DOMAIN row THEN row[keys[i]] ELSE maxsize]

\* the last call moved rows only: the same rows, no cell changed, the same
\* column list
OnlyReordered ==
    /\ Len(self_records.data) = Len(pre.self.data)
    /\ Range(self_records.data) = Range(pre.self.data)
    /\ heap = pre.heap
    /\ self_records.columns = pre.self.columns

\* C12: sort(keys, ascending=True) puts the rows in the order of their key
\* tuples, a missing key counting as MAX (so behind every value), rows of
\* equal tuples in the order they had before; no row and no cell changes.
C12_SortAscending ==
    (Called("sort") /\ call.ascending) =>
        /\ OnlyReordered
        /\ \A p, q \in DOMAIN self_records.data :
             p < q =>
               LET tp == SortTuple(RowsNow[p], call.key)
                   tq == SortTuple(RowsNow[q], call.key)
               IN /\ ~TupleLess(tq, tp)
                  /\ tp = tq => PlaceBefore(p) < PlaceBefore(q)

\* an ascending sort that moved a row lacking the key behind a row that has
\* it, and kept two rows of one key tuple in their order
C12_Witness ==
    /\ Called("sort") /\ call.ascending /\ call.n = 1
    /\ \E p, q \in DOMAIN self_records.data :
         /\ p < q /\ PlaceBefore(p) > PlaceBefore(q)
         /\ call.key[1] \in DOMAIN RowsNow[p]
         /\ call.key[1] \notin DOMAIN RowsNow[q]
    /\ \E p, q \in DOMAIN self_records.data :
         /\ p < q /\ RowsNow[p] # RowsNow[q]
         /\ SortTuple(RowsNow[p], call.key) = SortTuple(RowsNow[q], call.key)


Reverse(s) == [p \in DOMAIN s |-> s[Len(s) + 1 - p]]

\* the last two calls were sort(k, ascending=True) and sort(k,
\* ascending=False) on a table whose rows all have every column of k
AscendingThenDescending ==
    /\ Called("sort") /\ ~call.ascending
    /\ call.n = 2 /\ call.prev_ascending /\ call.prev_key = call.key
    /\ \A p \in DOMAIN RowsNow : Range(call.key) \subseteq DOMAIN RowsNow[p]

\* C13 as claimed: after sort(k, ascending=True) and sort(k,
\* ascending=False) the rows are in the reverse of the order the ascending
\* sort gave them, rows of equal key tuples included.
C13_DescendingReverses ==
    AscendingThenDescending => RowsNow = Reverse(RowsBefore)

\* C13 as amended: after the two sorts the rows are in descending order of
\* their key tuples and rows of equal key tuples are still in the order the
\* ascending sort gave them; the result is the reverse of the ascending
\* order when no two rows have the same key tuple.
C13_DescendingKeepsTies ==
    AscendingThenDescending =>
        /\ OnlyReordered
        /\ \A p, q \in DOMAIN self_records.data :
             p < q =>
               LET tp == SortTuple(RowsNow[p], call.key)
                   tq == SortTuple(RowsNow[q], call.key)
               IN /\ ~TupleLess(tp, tq)
                  /\ tp = tq => PlaceBefore(p) < PlaceBefore(q)
        /\ (\A p, q \in DOMAIN RowsNow :
               p # q => SortTuple(RowsNow[p], call.key) # SortTuple(RowsNow[q], call.key))
           => RowsNow = Reverse(RowsBefore)

\* the two sorts on three rows, two of them different rows of one key
\* tuple, which are not reversed, and one of another key tuple
C13_Witness ==
    /\ AscendingThenDescending
    /\ Len(RowsNow) = 3
    /\ RowsNow # Reverse(RowsBefore)
    /\ \E p, q \in DOMAIN RowsNow :
         /\ p < q /\ RowsNow[p] # RowsNow[q]
         /\ SortTuple(RowsNow[p], call.key) = SortTuple(RowsNow[q], call.key)
    /\ \E p, q \in DOMAIN RowsNow :
         SortTuple(RowsNow[p], call.key) # SortTuple(RowsNow[q], call.key)

---------------------------------------------------------------------------
(* Claim on Records.groupby, checked under SpecGroupby *)

\* the places (entry n of the dict, place p in its table) where the row id
\* is held
GroupPlaces(id) ==
    {<<n, p>> \in (DOMAIN group) \X (1 .. MaxSortRows) :
        p \in DOMAIN group[n].records.data /\ group[n].records.data[p] = id}

\* where the row id stands in the grouped table
PlaceInTable(id) ==
    CHOOSE q \in DOMAIN self_records.data : self_records.data[q] = id

\* C14: groupby(keys) partitions the rows: every row of the table is in
\* exactly one group, the one keyed by its tuple of key values (MAX for a
\* missing key); every group has the table's column list, holds its rows in
\* their order in the table, and is not empty.
C14_GroupbyPartitions ==
    Called("groupby") =>
        /\ \A n1, n2 \in DOMAIN group : group[n1].key = group[n2].key => n1 = n2
        /\ \A q \in DOMAIN self_records.data :
             LET id == self_records.data[q]
             IN /\ Cardinality(GroupPlaces(id)) = 1
                /\ \A place \in GroupPlaces(id) :
                     group[place[1]].key = SortTuple(heap[id], call.columns)
        /\ \A n \in DOMAIN group :
             LET data == group[n].records.data
             IN /\ group[n].records.columns = self_records.columns
                /\ data # <<>>
                /\ Range(data) \subseteq Range(self_records.data)
                /\ \A p1, p2 \in DOMAIN data :
                     p1 < p2 => PlaceInTable(data[p1]) < PlaceInTable(data[p2])

\* three rows grouped by a: two rows of one value in one group, in order,
\* and a row without a in the group of MAX
C14_Witness ==
    /\ Called("groupby") /\ call.columns = <<"a">>
    /\ Len(self_records.data) = 3
    /\ Len(group) = 2
    /\ \E n \in DOMAIN group :
         group[n].key = <<maxsize>> /\ Len(group[n].records.data) = 1
    /\ \E n \in DOMAIN group :
         /\ Len(group[n].records.data) = 2
         /\ heap[group[n].records.data[1]] # heap[group[n].records.data[2]]

---------------------------------------------------------------------------
(* Claim on Records.bind_drop_as_delay, checked under SpecDelay *)

\* the rows before the first of the bind_drop_as_delay calls
RowsFirst == call.first

\* C15 as stated: bind_drop_as_delay is idempotent, the second of two calls
\* in a row leaves the rows, and their order, as the first call left them.
C15_BindIdempotent ==
    (Called("bind_drop_as_delay") /\ call.n = 2) => RowsNow = RowsBefore

\* C15: the second of two bind_drop_as_delay calls in a row keeps the rows
\* and every cell the first call left, can only add cells to them, and
\* leaves the rows in ascending order of all columns; it changes nothing
\* when the first call filled no cell, and when no row has the last column
\* (a table of two columns in effect).
C15_SecondCallOnlyFills ==
    (Called("bind_drop_as_delay") /\ call.n = 2) =>
        /\ Len(self_records.data) = Len(pre.self.data)
        /\ Range(self_records.data) = Range(pre.self.data)
        /\ self_records.columns = pre.self.columns
        /\ \A id \in Range(self_records.data) :
             /\ DOMAIN pre.heap[id] \subseteq DOMAIN heap[id]
             /\ \A key \in DOMAIN pre.heap[id] : heap[id][key] = pre.heap[id][key]
        /\ \A p, q \in DOMAIN RowsNow :
             p < q => ~TupleLess(SortTuple(RowsNow[q], DelayColumns),
                                 SortTuple(RowsNow[p], DelayColumns))
        /\ Range(RowsFirst) = Range(RowsBefore) => RowsNow = RowsBefore
        /\ (\A p \in DOMAIN RowsFirst : "c" \notin DOMAIN RowsFirst[p])
              => RowsNow = RowsBefore

\* two calls in a row of which the first filled a cell of a row, and the
\* second filled a further cell of a row
C15_Witness ==
    /\ Called("bind_drop_as_delay") /\ call.n = 2
    /\ Len(RowsNow) = 3
    /\ \E p \in DOMAIN RowsBefore : RowsBefore[p] \notin Range(RowsFirst)
    /\ \E id \in Range(self_records.data) : DOMAIN heap[id] # DOMAIN pre.heap[id]
---------------------------------------------------------------------------
(* Claims on the mutating methods, checked under SpecMutate *)

\* the last call of op on self_records, failed or not
Mutated(op) == call.op = op

\* the last call raised and changed neither table nor any row
Untouched ==
    /\ heap = pre.heap
    /\ self_records = pre.self
    /\ right_records = pre.right

\* append and concat: the rows given are the new end of the table, in
\* order, and nothing else changed
AppendedAtEnd ==
    /\ Mutated("append") /\ ~call.raised =>
         /\ self_records.columns = pre.self.columns
         /\ self_records.data = Append(pre.self.data, Len(heap))
         /\ heap = Append(pre.heap, call.record)
    /\ Mutated("concat") /\ ~call.raised =>
         /\ self_records.columns = pre.self.columns
         /\ self_records.data = pre.self.data \o right_records.data
         /\ heap = pre.heap
         /\ right_records = pre.right

FailureUntouched ==
    (call.op \in {"append", "concat", "append_column"} /\ call.raised) => Untouched

\* the last place of the table at which the row object of place i stands
LastPlace(i) ==
    CHOOSE j \in DOMAIN self_records.data :
        /\ self_records.data[j] = self_records.data[i]
        /\ \A k \in DOMAIN self_records.data :
             self_records.data[k] = self_records.data[i] => k <= j

CellsUnderColumns(t) ==
    /\ \A id \in Range(t.data) : DOMAIN heap[id] \subseteq Range(t.columns)
    /\ \A i, j \in DOMAIN t.columns : t.columns[i] = t.columns[j] => i = j

\* C17: after any sequence of successful append, concat, append_column,
\* column rename and column drop calls, every cell of every row of a table
\* (the target self_records, the argument right_records) is under a column
\* name of that table's column list, and no column name is repeated.
C17_CellsUnderColumns ==
    CellsUnderColumns(self_records) /\ CellsUnderColumns(right_records)

---------------------------------------------------------------------------
(* Claim on class Record, checked under SpecRecord *)

\* C18: after any sequence of add, drop_columns, merge and change_dict_key
\* the record's column set is the key set of its data; drop_columns, also
\* with absent and with repeated names, completes without error and removes
\* exactly the cells whose name is in the list; merge(other) is the map
\* union in which other's value wins.
C18_ColumnsAreDataKeys ==
    /\ a_record.columns = DOMAIN a_record.data
    /\ Called("drop_columns") =>
         /\ ~call.raised
         /\ a_record.data = [k \in DOMAIN pre.record.data \ Range(call.columns) |->
                               pre.record.data[k]]
    /\ Called("merge") =>
         a_record.data = [k \in DOMAIN pre.record.data \cup DOMAIN call.other |->
                            IF k \in DOMAIN call.other THEN call.other[k]
                            ELSE pre.record.data[k]]


\* C19: renaming a column old -> new makes the column list show new at the
\* place of old; every row of the table that had a cell under old holds
\* that value under new and no cell under old, and nothing else changes.
\* Dropping a column of the table takes it from the column list and its
\* cell from every row of the table that had one, and changes nothing else.
C19_RenameAndDrop ==
    /\ Mutated("rename") =>
         /\ self_records.data = pre.self.data
         /\ right_records = pre.right
         /\ DOMAIN self_records.columns = DOMAIN pre.self.columns
         /\ \A i \in DOMAIN pre.self.columns :
              self_records.columns[i] =
                 IF pre.self.columns[i] = call.old THEN call.new
                 ELSE pre.self.columns[i]
         /\ \A id \in DOMAIN heap :
              IF id \in Range(self_records.data) /\ call.old \in DOMAIN pre.heap[id]
              THEN /\ DOMAIN heap[id] = (DOMAIN pre.heap[id] \ {call.old}) \cup {call.new}
                   /\ heap[id][call.new] = pre.heap[id][call.old]
                   /\ \A k \in DOMAIN heap[id] \ {call.new} : heap[id][k] = pre.heap[id][k]
              ELSE heap[id] = pre.heap[id]
    /\ Mutated("drop") =>
         /\ self_records.data = pre.self.data
         /\ right_records = pre.right
         /\ self_records.columns = SelectSeq(pre.self.columns, LAMBDA c : c # call.name)
         /\ \A id \in DOMAIN heap :
              IF id \in Range(self_records.data)
              THEN /\ DOMAIN heap[id] = DOMAIN pre.heap[id] \ {call.name}
                   /\ \A k \in DOMAIN heap[id] : heap[id][k] = pre.heap[id][k]
              ELSE heap[id] = pre.heap[id]

\* a rename on a table of which one row had a cell under the old name,
\* beside another cell, and another row had none
C19_Witness ==
    /\ Mutated("rename")
    /\ \E i, j \in DOMAIN self_records.data :
         /\ call.old \in DOMAIN pre.heap[self_records.data[i]]
         /\ DOMAIN pre.heap[self_records.data[i]] # {call.old}
         /\ call.old \notin DOMAIN pre.heap[self_records.data[j]]
         /\ pre.heap[self_records.data[j]] # <<>>

---------------------------------------------------------------------------
(* Claim on the paired rows of the keyed merge, checked under SpecMerge *)

\* C20 as stated: in a paired row of the keyed merge a column present on
\* both rows takes the right row's value, every other cell of either row is
\* carried over unchanged.
C20_SharedTakesRight ==
    Called("merge") =>
        \A k \in ResultIdx :
            Paired(k) =>
              LET l == LeftRow(ResultProv(k).l)
                  r == RightRow(ResultProv(k).r)
              IN /\ DOMAIN ResultRow(k) = DOMAIN l \cup DOMAIN r
                 /\ \A c \in DOMAIN r : ResultRow(k)[c] = r[c]
                 /\ \A c \in DOMAIN l \ DOMAIN r : ResultRow(k)[c] = l[c]

\* C20: in a paired row of the keyed merge a column present on both rows
\* takes the left row's value (the left row's cells are laid over a copy of
\* the right row), every other cell of either row is carried over
\* unchanged, and the row has no further cell.
C20_SharedTakesLeft ==
    Called("merge") =>
        \A k \in ResultIdx :
            Paired(k) =>
              LET l == LeftRow(ResultProv(k).l)
                  r == RightRow(ResultProv(k).r)
              IN /\ DOMAIN ResultRow(k) = DOMAIN l \cup DOMAIN r
                 /\ \A c \in DOMAIN l : ResultRow(k)[c] = l[c]
                 /\ \A c \in DOMAIN r \ DOMAIN l : ResultRow(k)[c] = r[c]

\* a paired row whose left and right rows differ on a shared column, and
\* have a cell of their own each
C20_Witness ==
    /\ Called("merge")
    /\ \E k \in ResultIdx :
         /\ Paired(k)
         /\ LET l == LeftRow(ResultProv(k).l)
                r == RightRow(ResultProv(k).r)
            IN /\ \E c \in DOMAIN l \cap DOMAIN r : l[c] # r[c]
               /\ DOMAIN l \ DOMAIN r # {}
               /\ DOMAIN r \ DOMAIN l # {}

---------------------------------------------------------------------------
(* Claim on which rows merge_sequencial returns, checked under             *)
(* SpecSequencial                                                          *)

\* the result rows that left row i, or right row j, is in
LeftIn(i) == {k \in ResultIdx : ResultProv(k).l = i}
RightIn(j) == {k \in ResultIdx : ResultProv(k).r = j}

\* C21: merge_sequencial returns rows according to how: inner gives paired
\* rows only; with left and outer every left row is in exactly one result
\* row; with right and outer every right row is in exactly one result row;
\* no unpaired left row is returned for inner and right, no unpaired right
\* row for inner, left and left_use_latest.
C21_RowsByHow ==
    Called("merge_sequencial") =>
        /\ call.how = "inner" => \A k \in ResultIdx : Paired(k)
        /\ call.how \in {"left", "outer"} =>
             \A i \in LeftIdx : Cardinality(LeftIn(i)) = 1
        /\ call.how \in {"right", "outer"} =>
             \A j \in RightIdx : Cardinality(RightIn(j)) = 1
        /\ call.how \in {"inner", "right"} => \A k \in ResultIdx : ~LeftOnly(k)
        /\ call.how \in {"inner", "left", "left_use_latest"} =>
             \A k \in ResultIdx : ~RightOnly(k)
        /\ \A k \in ResultIdx : Paired(k) \/ LeftOnly(k) \/ RightOnly(k)

\* an outer merge of two left and two right rows that returned a pair, a
\* right row attached to the paired left row but not its first, and a left
\* row without its stamp
C21_Witness ==
    /\ Called("merge_sequencial") /\ call.how = "outer"
    /\ Len(pre.self.data) = 2 /\ Len(pre.right.data) = 2
    /\ \E k \in ResultIdx : Paired(k)
    /\ \E k \in ResultIdx :
         /\ RightOnly(k)
         /\ RightReady(ResultProv(k).r)
         /\ Preceding(ResultProv(k).r) # {}
    /\ \E k \in ResultIdx : LeftOnly(k) /\ ~LeftStamped(ResultProv(k).l)

---------------------------------------------------------------------------
(* Claims on the scan of the address-track merge, checked under            *)
(* SpecAddrTrack                                                           *)

\* the address set of the i-th entry of processing_records
SetOf(i) == KeysOf(heap, sets, processing_records[i].record)

\* the COPY rows the scan has passed
ScannedCopies ==
    {concat_records[p] : p \in {q \in 1 .. scanned :
                                  /\ column_type \in DOMAIN heap[concat_records[q]]
                                  /\ heap[concat_records[q]][column_type] = COPY}}

\* C22 as stated: after each row of the scan any two distinct sink rows in
\* processing_records have disjoint address sets.
C22_DisjointSets ==
    \A i, j \in DOMAIN processing_records :
        i # j => SetOf(i) \cap SetOf(j) = {}

\* C22: after each row of the scan two distinct entries of
\* processing_records are two sink rows under two sink_from addresses;
\* the set of each holds its own sink_from, and beyond it only copy_from
\* and copy_to addresses of COPY rows already scanned; so the sets are
\* disjoint as long as no COPY row was scanned, and may meet afterwards.
C22_SetsMeetOnlyByCopy ==
    /\ \A i, j \in DOMAIN processing_records :
         i # j => /\ processing_records[i].addr # processing_records[j].addr
                  /\ processing_records[i].record # processing_records[j].record
    /\ \A i \in DOMAIN processing_records :
         /\ heap[processing_records[i].record][call.sink_from_key]
               = processing_records[i].addr
         /\ processing_records[i].addr \in SetOf(i)
         /\ SetOf(i) \ {processing_records[i].addr}
               \subseteq {heap[r][call.copy_from_key] : r \in ScannedCopies}
                          \cup {heap[r][call.copy_to_key] : r \in ScannedCopies}
    /\ ScannedCopies = {} => C22_DisjointSets

\* two sink rows in processing_records whose sets meet after a COPY row
\* without being equal
C22_Witness ==
    /\ pc = "scan"
    /\ ScannedCopies # {}
    /\ \E i, j \in DOMAIN processing_records :
         /\ i # j
         /\ SetOf(i) \cap SetOf(j) # {}
         /\ SetOf(i) # SetOf(j)


\* the entries of processing_records whose address set holds the key of the
\* SOURCE row the scan is at
Meets(e) == heap[record][call.source_key] \in KeysOf(heap, sets, e.record)

\* the step of the scan on a SOURCE row: the sink rows of the dict whose
\* set holds source_key are returned, in the order of the dict, each with
\* the cells of the source row, and leave the dict; the others stay
SourceStep ==
    (pc = "scan" /\ heap[record][column_type] = SOURCE) =>
        LET found == SelectSeq(processing_records, Meets)
        IN /\ merged_records'.data =
                 merged_records.data \o [n \in DOMAIN found |-> found[n].record]
           /\ processing_records' =
                 SelectSeq(processing_records, LAMBDA e : ~Meets(e))
           /\ \A n \in DOMAIN found :
                /\ prov'[found[n].record].l = prov[record].l
                /\ \A c \in DOMAIN SourceRow(prov[record].l) :
                     heap'[found[n].record][c] = SourceRow(prov[record].l)[c]

\* no sink row is in two returned rows, a returned row is made of a sink
\* row and a source row and is no longer in the dict
EmittedOnce ==
    pc \in {"scan", "done"} =>
        /\ \A j \in DOMAIN pre.sink.data :
             Cardinality({k \in ResultIdx : ResultProv(k).r = j}) <= 1
        /\ \A k \in ResultIdx :
             /\ ResultProv(k).l \in DOMAIN pre.self.data
             /\ ResultProv(k).r \in DOMAIN pre.sink.data
             /\ \A i \in DOMAIN processing_records :
                  processing_records[i].record # merged_records.data[k]

\* C23: in the address-track merge every sink row is returned at most
\* once: the step on a SOURCE row merges every sink row of the dict whose
\* address set holds source_key with that source, returns it and takes it
\* from the dict, so no source scanned later is joined with it; a sink row
\* is returned only joined with a source.
C23_SinkEmittedOnce == [][SourceStep]_vars /\ []EmittedOnce

\* the call has returned a sink row joined with the later of two source
\* rows of its address, and has not returned another sink row
C23_Witness ==
    /\ Called("merge_sequencial_for_addr_track")
    /\ Len(pre.sink.data) = 2
    /\ Len(merged_records.data) = 1
    /\ \E i \in DOMAIN pre.self.data :
         /\ i # ResultProv(1).l
         /\ SourceRow(i).source_key = SourceRow(ResultProv(1).l).source_key
         /\ SourceRow(i).source_stamp < SourceRow(ResultProv(1).l).source_stamp
         /\ SourceRow(i).source_key = SinkRow(ResultProv(1).r).sink_from
    /\ \E j \in DOMAIN pre.sink.data :
         /\ j # ResultProv(1).r
         /\ SinkRow(j).sink_from # SinkRow(ResultProv(1).r).sink_from

---------------------------------------------------------------------------
(* Claim on the rows of the argument of concat, checked under SpecMutate   *)

\* C24: tables do not share rows after concat: a later append_column,
\* column rename or column drop on self_records leaves every row of
\* right_records as it was, and every cell of right_records under a column
\* of right_records.
C24_ConcatLeavesOtherRows ==
    /\ (call.op \in {"append_column", "rename", "drop"} /\ ~call.raised) =>
         \A id \in Range(right_records.data) : heap[id] = pre.heap[id]
    /\ \A id \in Range(right_records.data) :
         DOMAIN heap[id] \subseteq Range(right_records.columns)

====
